---- MODULE Spec2Model ----
(***************************************************************************)
(* TRMNLPicker (src/src/index.js): the selection state of a picker, the    *)
(* form controls it drives, the localStorage record it keeps and the       *)
(* 'trmnl:change' events it dispatches.                                    *)
(*                                                                         *)
(* JavaScript values are tagged records [t, v]: t is the typeof-like tag   *)
(* and v the payload as a string.  An update object (the argument of       *)
(* _setParams, or what JSON.parse returns) also carries o, its four        *)
(* properties; a property it does not have reads as undefined.             *)
(***************************************************************************)
EXTENDS Integers, Sequences, FiniteSets, TLC

VARIABLES
    phase,          \* "new", then "live" | "bare" | "failed", then "destroyed"
    options,        \* the constructor's options: [models, palettes] as JS values
    models,         \* this.models: the constructor's option, then the filtered list
    palettes,       \* this.palettes
    localStorageKey,\* this.localStorageKey: a JS value (undefined or a string)
    _state,         \* this._state: [model, palette, isPortrait, isDarkMode]
    elements,       \* this.elements: the form controls
    listening,      \* the controls on which a handler of the picker is a listener
    localStorage,   \* the text stored under the key (window.localStorage)
    storageMode,    \* "ok" | "readThrows" | "writeThrows": how the store answers
    call,           \* the operation that ran last and the update it passed on
    afterReset,     \* whether the operation that ran before it was a reset
    ret,            \* what the last operation returned: [changed, threw, stateChanged]
    events,         \* the trmnl:change events the last operation dispatched
    io,             \* the store accesses of the last operation: [read, reads, writes]
    lastRead,       \* the reads of screenClasses since the last operation: [n, threw, classes]
    seen,           \* what a listener of the last event read in its handler
    delivery,       \* the listeners of the form and the dispatches in progress
    part_001,       \* a picker of the variant src/unnamed/part_001: [state, result]
    part_000        \* a picker of the variant src/unnamed/part_000, its store and its
                    \* last operation: [phase, self, env, loaded, call, threw, events]

vars == <<phase, options, models, palettes, localStorageKey, _state, elements, listening,
          localStorage, storageMode, call, afterReset, ret, events, io, lastRead,
          seen, delivery, part_001, part_000>>

-----------------------------------------------------------------------------
(* JavaScript values *)

JUndef == [t |-> "undefined", v |-> ""]
JNull == [t |-> "null", v |-> ""]
JTrue == [t |-> "boolean", v |-> "true"]
JFalse == [t |-> "boolean", v |-> "false"]
JBool(b) == IF b THEN JTrue ELSE JFalse
JStr(s) == [t |-> "string", v |-> s]
JNum(n) == [t |-> "number", v |-> n]
\* a reference to a catalog object (a model by its name, a palette by its id)
JRef(k) == [t |-> "object", v |-> k]

\* ToBoolean: the test of `if (x)`, `!x`, `a || b`
Truthy(x) ==
    CASE x.t = "undefined" -> FALSE
      [] x.t = "null" -> FALSE
      [] x.t = "boolean" -> x.v = "true"
      [] x.t = "string" -> x.v # ""
      [] x.t = "number" -> x.v # "0"
      [] OTHER -> TRUE

\* typeof x === 'object' (null and arrays included)
TypeofObject(x) == x.t \in {"object", "array", "null"}

NoProps == [modelName |-> JUndef, paletteId |-> JUndef,
            isPortrait |-> JUndef, isDarkMode |-> JUndef]

\* a primitive (or an array, which has none of the four properties) as an argument
Arg(x) == [t |-> x.t, v |-> x.v, o |-> NoProps]
\* an object literal { modelName, paletteId, isPortrait, isDarkMode }
Obj(o) == [t |-> "object", v |-> "", o |-> o]

\* an array with its items, and a value that is no array, as an option
Arr(items) == [t |-> "array", v |-> "", items |-> items]
NotArr(x) == [t |-> x.t, v |-> x.v, items |-> <<>>]

\* Array.isArray(x) && x.length !== 0
isNonEmptyArray(x) == x.t = "array" /\ x.items # <<>>

\* String.prototype.trim on the framework_class strings of the catalogs
Trim(s) == IF s \in {"", " ", "  "} THEN "" ELSE s

-----------------------------------------------------------------------------
(* Catalogs: the models and palettes options of the constructor *)

Model(name, label, kind, palette_ids, device, size) ==
    [name |-> name, label |-> label, kind |-> kind, palette_ids |-> palette_ids,
     device |-> device, size |-> size]

Palette(id, name, framework_class) ==
    [id |-> id, name |-> name, framework_class |-> framework_class]

\* og_plus is present, it is not the first model of its group, and its first
\* reference is unusable (whitespace only); kindle's first reference is to no
\* palette; ghost is not eligible
CatalogA ==
    [models |-> << Model("kindle", "", "trmnl", <<"nope", "gray-4", "color-6">>, "", ""),
                   Model("ghost", "Ghost", "trmnl", <<"space", "nope">>, "screen--ghost", ""),
                   Model("og_plus", "TRMNL OG+", "trmnl", <<"space", "bw", "gray-4">>,
                         "screen--og", "screen--md") >>,
     palettes |-> << Palette("space", "Space", " "),
                     Palette("bw", "Black & White", "screen--1bit"),
                     Palette("gray-4", "4 Grays", "screen--2bit"),
                     Palette("color-6", "6 Colors", "screen--color-6") >>]

\* no og_plus: the default is the first model of the sorted groups; the device
\* class of amazon is the class of its palette
CatalogB ==
    [models |-> << Model("inky", "", "byod", <<"blank", "bw">>, "", "screen--sm"),
                   Model("v2", "TRMNL X", "trmnl", <<"color-6", "bw">>, "screen--v2", "screen--lg"),
                   Model("amazon", "Amazon Kindle", "byod", <<"gray-4">>, "screen--2bit", "") >>,
     palettes |-> << Palette("bw", "Black & White", "screen--1bit"),
                     Palette("blank", "Blank", ""),
                     Palette("color-6", "6 Colors", "screen--color-6"),
                     Palette("gray-4", "4 Grays", "screen--2bit") >>]

\* every model eligible, one group, labels that differ in case
CatalogC ==
    [models |-> << Model("seeed", "reTerminal", "byod", <<"bw", "color-6">>, "screen--seeed", ""),
                   Model("m5", "M5Paper", "byod", <<"gray-4", "blank">>, "", "") >>,
     palettes |-> << Palette("gray-4", "4 Grays", "screen--2bit"),
                     Palette("blank", "Blank", ""),
                     Palette("bw", "Black & White", "screen--1bit"),
                     Palette("color-6", "6 Colors", "screen--color-6") >>]

CatalogList == <<CatalogA, CatalogB, CatalogC>>

\* how many of the catalogs of CatalogList a picker is constructed with
NumCatalogs == 2

Catalogs == {CatalogList[i] : i \in 1..NumCatalogs}

Range(s) == {s[i] : i \in DOMAIN s}

Min(S) == CHOOSE i \in S : \A j \in S : i <= j

\* Array.prototype.find / findIndex: the first index that passes, 0 when none does
FindIndex(seq, Test(_)) ==
    IF \E i \in DOMAIN seq : Test(seq[i])
    THEN Min({i \in DOMAIN seq : Test(seq[i])})
    ELSE 0

\* Array.prototype.filter
Filter(seq, Test(_)) == SelectSeq(seq, Test)

-----------------------------------------------------------------------------
(* Catalog filtering and the first usable palette *)

\* this.palettes.find(p => p.id === paletteId): paletteId is a JS value
findPalette(pals, paletteId) ==
    LET Same(p) == JStr(p.id) = paletteId
    IN  FindIndex(pals, Same)

\* a validity test that does not trim: a class of blanks counts as a class
isValidPalette_noTrim(pals, paletteId) ==
    \E i \in DOMAIN pals :
        /\ JStr(pals[i].id) = paletteId
        /\ \A j \in 1..(i - 1) : JStr(pals[j].id) # paletteId
        /\ pals[i].framework_class # ""

\* palette && palette.framework_class && palette.framework_class.trim() !== ''
isValidPalette(pals, paletteId) ==
    \E i \in DOMAIN pals :
        /\ JStr(pals[i].id) = paletteId
        /\ \A j \in 1..(i - 1) : JStr(pals[j].id) # paletteId
        /\ pals[i].framework_class # ""
        /\ Trim(pals[i].framework_class) # ""

_filterValidModels(mods, pals) ==
    LET Some(model) == \E k \in DOMAIN model.palette_ids :
                          isValidPalette(pals, JStr(model.palette_ids[k]))
    IN  Filter(mods, Some)

\* the id (a JS string) of the first usable palette of model, or null
_getFirstValidPaletteId(pals, model) ==
    LET Valid(id) == isValidPalette(pals, JStr(id))
    IN  IF \E k \in DOMAIN model.palette_ids : Valid(model.palette_ids[k])
        THEN JStr(model.palette_ids[FindIndex(model.palette_ids, Valid)])
        ELSE JNull

\* this.models.find(m => m.name === modelName)
findModel(mods, modelName) ==
    LET Same(m) == JStr(m.name) = modelName
    IN  FindIndex(mods, Same)

\* the model object this._state.model refers to (model is a JRef)
modelOf(mods, model) == mods[findModel(mods, JStr(model.v))]

\* the palette object this._state.palette refers to (palette is a JRef)
paletteOf(pals, palette) == pals[findPalette(pals, JStr(palette.v))]

-----------------------------------------------------------------------------
(* The sorted model groups of _setInitialState *)

\* (label || name).toLowerCase() of the catalogs' models
ToLowerCase(s) ==
    CASE s = "TRMNL OG+" -> "trmnl og+"
      [] s = "TRMNL X" -> "trmnl x"
      [] s = "Ghost" -> "ghost"
      [] s = "Amazon Kindle" -> "amazon kindle"
      [] s = "reTerminal" -> "reterminal"
      [] s = "M5Paper" -> "m5paper"
      [] s = "TRMNL OG" -> "trmnl og"
      [] OTHER -> s

\* localeCompare on those lower-cased strings: the position in collation order
CollationOrder ==
    <<"amazon kindle", "ghost", "inky", "kindle", "m5paper", "reterminal",
      "trmnl og", "trmnl og+", "trmnl x", "trmnl_original">>

sortKey(m) ==
    CHOOSE i \in DOMAIN CollationOrder :
        CollationOrder[i] = ToLowerCase(IF m.label # "" THEN m.label ELSE m.name)

\* Array.prototype.sort with that comparison (stable): element i of the result
\* is the one with i - 1 elements before it, by key and then by position
sortByLabel(seq) ==
    LET Before(j, k) == \/ sortKey(seq[j]) < sortKey(seq[k])
                        \/ sortKey(seq[j]) = sortKey(seq[k]) /\ j < k
    IN  [i \in DOMAIN seq |->
            seq[CHOOSE k \in DOMAIN seq :
                    Cardinality({j \in DOMAIN seq : Before(j, k)}) = i - 1]]

IsTrmnl(m) == m.kind = "trmnl"
IsByod(m) == m.kind # "trmnl"

\* [...sortTRMNL, ...sortBYOD]
sortedModels(mods) ==
    sortByLabel(Filter(mods, IsTrmnl)) \o sortByLabel(Filter(mods, IsByod))

DEFAULT_MODEL_NAME == "og_plus"

\* a default that is the first model of the combined order, whatever its name
firstOrNamed_first(sorted, name) == sorted[1]

\* sortedModels.find(m => m.name === DEFAULT_MODEL_NAME) || sortedModels[0]
firstOrNamed(sorted, name) ==
    IF findModel(sorted, JStr(name)) # 0
    THEN sorted[findModel(sorted, JStr(name))]
    ELSE sorted[1]

defaultModel(mods) == firstOrNamed(sortedModels(mods), DEFAULT_MODEL_NAME)

-----------------------------------------------------------------------------
(* The form controls: a <select> is its option values and its value *)

names(seq) == [i \in DOMAIN seq |-> seq[i].name]

\* select.value = v: the option with that value gets selected, or none ('')
setValue(select, v) ==
    [select EXCEPT !.value = IF v.t = "string" /\ v.v \in Range(select.options)
                             THEN v.v ELSE ""]

\* innerHTML = '' and one appendChild per option: the first option is selected
setOptions(select, opts) ==
    [options |-> opts, value |-> IF opts = <<>> THEN "" ELSE opts[1]]

\* the palette options of a model: its usable palettes in palette_ids order
paletteOptions(pals, model) ==
    LET Valid(id) == isValidPalette(pals, JStr(id))
    IN  Filter(model.palette_ids, Valid)

_populateModelPalettes(self) ==
    IF findModel(self.models, JStr(self.elements.modelSelect.value)) = 0 THEN self
    ELSE [self EXCEPT !.elements.paletteSelect =
              setOptions(@, paletteOptions(self.palettes,
                  modelOf(self.models, JRef(self.elements.modelSelect.value))))]

-----------------------------------------------------------------------------
(* Derived values: screenClasses and params *)

\* a class list with the scale pushed before the orientation
classList_scaleFirst(fc, device, size, isPortrait, isDarkMode) ==
    <<"screen">>
    \o (IF fc # "" THEN <<fc>> ELSE <<>>)
    \o (IF device # "" THEN <<device>> ELSE <<>>)
    \o (IF size # "" THEN <<size>> ELSE <<>>)
    \o <<"screen--1x">>
    \o (IF Truthy(isPortrait) THEN <<"screen--portrait">> ELSE <<>>)
    \o (IF Truthy(isDarkMode) THEN <<"screen--dark-mode">> ELSE <<>>)

\* the classes pushed in order; '' stands for a class the catalog does not give
classList(fc, device, size, isPortrait, isDarkMode) ==
    <<"screen">>
    \o (IF fc # "" THEN <<fc>> ELSE <<>>)
    \o (IF device # "" THEN <<device>> ELSE <<>>)
    \o (IF size # "" THEN <<size>> ELSE <<>>)
    \o (IF Truthy(isPortrait) THEN <<"screen--portrait">> ELSE <<>>)
    \o <<"screen--1x">>
    \o (IF Truthy(isDarkMode) THEN <<"screen--dark-mode">> ELSE <<>>)

classesOf(model, fc, st) ==
    classList(fc, model.device, model.size, st.isPortrait, st.isDarkMode)

\* get screenClasses(): [threw, classes]; it throws when no model is selected
screenClasses(self) ==
    IF ~Truthy(self._state.model) THEN [threw |-> TRUE, classes |-> <<>>]
    ELSE [threw |-> FALSE,
          classes |-> classesOf(modelOf(self.models, self._state.model),
                                IF Truthy(self._state.palette)
                                THEN paletteOf(self.palettes, self._state.palette).framework_class
                                ELSE "",
                                self._state)]

\* model?.name and palette?.id
nameOf(ref) == IF ref.t = "object" THEN JStr(ref.v) ELSE JUndef

\* get params()
params(self) ==
    [modelName |-> nameOf(self._state.model),
     paletteId |-> nameOf(self._state.palette),
     isPortrait |-> self._state.isPortrait,
     isDarkMode |-> self._state.isDarkMode]

-----------------------------------------------------------------------------
(* JSON texts and the store *)

\* A stored text: kind "absent" (no entry), "raw" (v is '' or text that is not
\* JSON), a JSON scalar ("null", "boolean", "number", "string" with payload
\* v), "array" ('[]') or "object" with kv, its key/value pairs in order.
Text(kind, v, kv) == [kind |-> kind, v |-> v, kv |-> kv]
NoEntry == Text("absent", "", <<>>)

PropNames == <<"modelName", "paletteId", "isPortrait", "isDarkMode">>

pairsOf(o, keys) == [i \in DOMAIN keys |-> [k |-> keys[i], val |-> o[keys[i]]]]

\* JSON.stringify of an object with the four properties: a property whose value
\* is undefined is left out, the others are written in property order
JSONStringify(o) ==
    LET Written(k) == o[k].t # "undefined"
    IN  Text("object", "", pairsOf(o, Filter(PropNames, Written)))

\* the value of key k in the pairs kv: the last pair with that key wins
valueOf(kv, k) ==
    IF \E i \in DOMAIN kv : kv[i].k = k
    THEN kv[CHOOSE i \in DOMAIN kv :
                /\ kv[i].k = k
                /\ \A j \in DOMAIN kv : kv[j].k = k => j <= i].val
    ELSE JUndef

\* JSON.parse: [threw, value]
JSONParse(text) ==
    CASE text.kind = "raw" -> [threw |-> TRUE, value |-> Arg(JUndef)]
      [] text.kind = "object" ->
            [threw |-> FALSE,
             value |-> Obj([k \in Range(PropNames) |-> valueOf(text.kv, k)])]
      [] OTHER -> [threw |-> FALSE, value |-> Arg([t |-> text.kind, v |-> text.v])]

\* the string getItem returns is truthy unless it is null or ''
TextTruthy(text) == ~(text.kind = "absent" \/ (text.kind = "raw" /\ text.v = ""))

\* if (saved) return JSON.parse(saved), a parse error caught; else null
parsedOrNull(saved, parsed) ==
    IF TextTruthy(saved) /\ ~parsed.threw THEN parsed.value ELSE Arg(JNull)

\* _loadFromLocalStorage: [value, reads, text]; every failure is caught
_loadFromLocalStorage(self, env) ==
    IF ~Truthy(self.localStorageKey)
    THEN [value |-> Arg(JNull), reads |-> 0, text |-> NoEntry]
    ELSE IF env.storageMode = "readThrows"
    THEN [value |-> Arg(JNull), reads |-> 1, text |-> NoEntry]
    ELSE [value |-> parsedOrNull(env.localStorage, JSONParse(env.localStorage)),
          reads |-> 1, text |-> env.localStorage]

\* a save that forgets the palette: { modelName, isPortrait, isDarkMode }
_saveToLocalStorage_noPalette(self, env) ==
    IF ~Truthy(self.localStorageKey) THEN [env |-> env, writes |-> 0]
    ELSE IF env.storageMode = "writeThrows" THEN [env |-> env, writes |-> 1]
    ELSE [env |-> [env EXCEPT !.localStorage =
                       JSONStringify([params(self) EXCEPT !.paletteId = JUndef])],
          writes |-> 1]

\* a save that does not look at the key
_saveToLocalStorage_anyKey(self, env) ==
    IF env.storageMode = "writeThrows" THEN [env |-> env, writes |-> 1]
    ELSE [env |-> [env EXCEPT !.localStorage = JSONStringify(params(self))],
          writes |-> 1]

\* _saveToLocalStorage: [env, writes]; a setItem that throws is caught
_saveToLocalStorage(self, env) ==
    IF ~Truthy(self.localStorageKey) THEN [env |-> env, writes |-> 0]
    ELSE IF env.storageMode = "writeThrows" THEN [env |-> env, writes |-> 1]
    ELSE [env |-> [env EXCEPT !.localStorage = JSONStringify(params(self))],
          writes |-> 1]

-----------------------------------------------------------------------------
(* The change event and the reset button *)

\* a detail whose origin is always 'form'
Event_formOrigin(origin, st, classes) ==
    [origin |-> "form", model |-> st.model, palette |-> st.palette,
     isPortrait |-> st.isPortrait, isDarkMode |-> st.isDarkMode,
     screenClasses |-> classes]

\* a detail that reports the landscape, light state
Event_defaultFlags(origin, st, classes) ==
    [origin |-> origin, model |-> st.model, palette |-> st.palette,
     isPortrait |-> JFalse, isDarkMode |-> JFalse,
     screenClasses |-> classes]

Event(origin, st, classes) ==
    [origin |-> origin, model |-> st.model, palette |-> st.palette,
     isPortrait |-> st.isPortrait, isDarkMode |-> st.isDarkMode,
     screenClasses |-> classes]

\* what a listener reads while dispatchEvent runs its handler: params,
\* screenClasses, the controls and the store, as they are at that moment
Snapshot(self, env, sc) ==
    [heard |-> TRUE, params |-> params(self), classes |-> sc.classes,
     elements |-> self.elements, localStorage |-> env.localStorage]

NoSeen == [heard |-> FALSE]

\* the outcome of _setParams: the instance, the store, the flag it returns,
\* whether it threw, the events it dispatched, its setItem calls and what a
\* listener saw
Outcome(self, env, changed, threw, evts, writes) ==
    [self |-> self, env |-> env, changed |-> changed, threw |-> threw,
     events |-> evts, writes |-> writes, seen |-> NoSeen]

\* the event with the state and the class list, dispatched after the save;
\* reading screenClasses for the detail throws when no model is selected
dispatch(self, origin, saved, sc) ==
    [Outcome(self, saved.env, TRUE, sc.threw,
             IF sc.threw THEN <<>> ELSE <<Event(origin, self._state, sc.classes)>>,
             saved.writes)
        EXCEPT !.seen = IF sc.threw THEN NoSeen ELSE Snapshot(self, saved.env, sc)]

\* an emission that dispatches the event first and saves the record after
_emitChangeEvent_dispatchFirst(self, env, origin) ==
    [dispatch(self, origin, _saveToLocalStorage(self, env), screenClasses(self))
        EXCEPT !.seen = IF screenClasses(self).threw THEN NoSeen
                        ELSE Snapshot(self, env, screenClasses(self))]

\* an emission that does not save the record
_emitChangeEvent_noSave(self, env, origin) ==
    dispatch(self, origin, [env |-> env, writes |-> 0], screenClasses(self))

\* _emitChangeEvent(origin)
_emitChangeEvent(self, env, origin) ==
    dispatch(self, origin, _saveToLocalStorage(self, env), screenClasses(self))

\* a button that takes a flag that is not true for a flag at its default
setResetDisabled_falsy(self, first) ==
    [self EXCEPT !.elements.resetButton.disabled =
        /\ self.elements.paletteSelect.value = (IF first.t = "null" THEN "null" ELSE first.v)
        /\ ~Truthy(self._state.isPortrait)
        /\ ~Truthy(self._state.isDarkMode)]

\* resetButton.disabled = isAtDefaults
setResetDisabled(self, first) ==
    [self EXCEPT !.elements.resetButton.disabled =
        /\ self.elements.paletteSelect.value = (IF first.t = "null" THEN "null" ELSE first.v)
        /\ self._state.isPortrait = JFalse
        /\ self._state.isDarkMode = JFalse]

\* _updateResetButton: disabled exactly when palette, orientation and dark mode
\* are at the defaults; nothing is done while no model is selected
_updateResetButton(self) ==
    IF ~Truthy(self._state.model) THEN self
    ELSE setResetDisabled(self,
             _getFirstValidPaletteId(self.palettes, modelOf(self.models, self._state.model)))

-----------------------------------------------------------------------------
(* _setParams: the one path of every update.  Each step takes and returns   *)
(* [self, changed], the instance and the `changed` flag so far.             *)

\* modelSelect.value = model.name; this._state.model = model
withModel(self, model) ==
    [self EXCEPT !.elements.modelSelect = setValue(@, JStr(model.name)),
                 !._state.model = JRef(model.name)]

\* paletteSelect.value = id; this._state.palette = this.palettes.find(p => p.id === id)
withPalette(self, id) ==
    [self EXCEPT !.elements.paletteSelect = setValue(@, id),
                 !._state.palette = IF findPalette(self.palettes, id) = 0 THEN JUndef
                                    ELSE JRef(id.v)]

\* a selection that keeps the palette already selected when there is one
selectModel_keepPalette(self, model) ==
    IF Truthy(self._state.palette)
    THEN _populateModelPalettes(withModel(self, model))
    ELSE withPalette(_populateModelPalettes(withModel(self, model)),
                     _getFirstValidPaletteId(self.palettes, model))

\* the model is selected, its palettes are listed and its first usable one chosen
selectModel(self, model) ==
    withPalette(_populateModelPalettes(withModel(self, model)),
                _getFirstValidPaletteId(self.palettes, model))

\* a model step that falls back to the first model when the name is unknown
applyModelName_orFirst(acc, p) ==
    IF Truthy(p.o.modelName)
    THEN [self |-> selectModel(acc.self,
                       acc.self.models[IF findModel(acc.self.models, p.o.modelName) # 0
                                       THEN findModel(acc.self.models, p.o.modelName)
                                       ELSE 1]),
          changed |-> TRUE]
    ELSE acc

\* if (params.modelName) { const model = this.models.find(...); if (model) ... }
applyModelName(acc, p) ==
    IF Truthy(p.o.modelName) /\ findModel(acc.self.models, p.o.modelName) # 0
    THEN [self |-> selectModel(acc.self,
                       acc.self.models[findModel(acc.self.models, p.o.modelName)]),
          changed |-> TRUE]
    ELSE acc

\* a palette step that takes only a usable palette of the selected model
applyPaletteId_listedOnly(acc, p) ==
    IF /\ Truthy(p.o.paletteId)
       /\ Truthy(acc.self._state.model)
       /\ \E k \in DOMAIN paletteOptions(acc.self.palettes,
                                          modelOf(acc.self.models, acc.self._state.model)) :
              JStr(paletteOptions(acc.self.palettes,
                                  modelOf(acc.self.models, acc.self._state.model))[k])
                 = p.o.paletteId
    THEN [self |-> withPalette(acc.self, p.o.paletteId), changed |-> TRUE]
    ELSE acc

\* if (params.paletteId) { const palette = this.palettes.find(...); if (palette) ... }
applyPaletteId(acc, p) ==
    IF Truthy(p.o.paletteId) /\ findPalette(acc.self.palettes, p.o.paletteId) # 0
    THEN [self |-> withPalette(acc.self, p.o.paletteId), changed |-> TRUE]
    ELSE acc

\* an orientation step that takes any value that is given for its truth value
applyIsPortrait_truthy(acc, p) ==
    IF p.o.isPortrait.t # "undefined"
    THEN [self |-> [acc.self EXCEPT
              !._state.isPortrait = JBool(Truthy(p.o.isPortrait)),
              !.elements.orientationText =
                  IF Truthy(p.o.isPortrait) THEN "Portrait" ELSE "Landscape"],
          changed |-> TRUE]
    ELSE acc

\* if (typeof params.isPortrait === 'boolean') ...
applyIsPortrait(acc, p) ==
    IF p.o.isPortrait.t = "boolean"
    THEN [self |-> [acc.self EXCEPT
              !._state.isPortrait = p.o.isPortrait,
              !.elements.orientationText =
                  IF Truthy(p.o.isPortrait) THEN "Portrait" ELSE "Landscape"],
          changed |-> TRUE]
    ELSE acc

\* if (typeof params.isDarkMode === 'boolean') ...
applyIsDarkMode(acc, p) ==
    IF p.o.isDarkMode.t = "boolean"
    THEN [self |-> [acc.self EXCEPT
              !._state.isDarkMode = p.o.isDarkMode,
              !.elements.darkModeText =
                  IF Truthy(p.o.isDarkMode) THEN "Dark Mode" ELSE "Light Mode"],
          changed |-> TRUE]
    ELSE acc

\* the steps with the palette id applied before the model name, so that the
\* model's first usable palette replaces it
applyFields_paletteFirst(self, p) ==
    applyIsDarkMode(
        applyIsPortrait(
            applyModelName(
                applyPaletteId([self |-> self, changed |-> FALSE], p), p), p), p)

\* the four steps in the order of the source
applyFields(self, p) ==
    applyIsDarkMode(
        applyIsPortrait(
            applyPaletteId(
                applyModelName([self |-> self, changed |-> FALSE], p), p), p), p)

\* if (changed) this._updateResetButton(); if (changed && origin) this._emitChangeEvent(origin)
afterFields(acc, env, origin) ==
    IF acc.changed /\ origin # ""
    THEN _emitChangeEvent(_updateResetButton(acc.self), env, origin)
    ELSE IF acc.changed
    THEN Outcome(_updateResetButton(acc.self), env, TRUE, FALSE, <<>>, 0)
    ELSE Outcome(acc.self, env, FALSE, FALSE, <<>>, 0)

\* an update that takes an argument that is no object for the empty update
_setParams_lenient(self, env, origin, p) ==
    IF ~Truthy(p) \/ ~TypeofObject(p)
    THEN Outcome(self, env, FALSE, FALSE, <<>>, 0)
    ELSE afterFields(applyFields(self, p), env, origin)

\* _setParams(origin, params): a falsy or non-object argument throws
_setParams(self, env, origin, p) ==
    IF ~Truthy(p) \/ ~TypeofObject(p)
    THEN Outcome(self, env, FALSE, TRUE, <<>>, 0)
    ELSE afterFields(applyFields(self, p), env, origin)

-----------------------------------------------------------------------------
(* The instance, its environment and the inputs *)

Self == [models |-> models, palettes |-> palettes, localStorageKey |-> localStorageKey,
         _state |-> _state, elements |-> elements]

Env == [localStorage |-> localStorage, storageMode |-> storageMode]

\* this._state = {}
EmptyState == [model |-> JUndef, palette |-> JUndef,
               isPortrait |-> JUndef, isDarkMode |-> JUndef]

\* the controls of the form as the page declares them (README, Quick Start)
FormElements ==
    [modelSelect |-> [options |-> <<>>, value |-> ""],
     paletteSelect |-> [options |-> <<>>, value |-> ""],
     resetButton |-> [disabled |-> FALSE],
     orientationText |-> "Landscape",
     darkModeText |-> "Light Mode"]

With(k, x) == [NoProps EXCEPT ![k] = x]
Props(m, q, b, d) == [modelName |-> m, paletteId |-> q, isPortrait |-> b, isDarkMode |-> d]

\* model names an update or a stored record may carry: those of the catalog
\* (eligible or not) and "ghost", which CatalogA filters out and the others lack
ModelNameInputs(mods) == {JStr(mods[i].name) : i \in DOMAIN mods} \cup {JStr("ghost")}
\* palette ids: every palette of the catalog and one that is in no catalog
PaletteIdInputs(pals) == {JStr(pals[i].id) : i \in DOMAIN pals} \cup {JStr("nope")}
IsPortraitInputs == {JTrue, JFalse, JStr("yes"), JNum("1")}
IsDarkModeInputs == {JTrue, JFalse, JNull}

\* arguments that are not update objects
NonObjects == {Arg(JUndef), Arg(JNull), Arg(JNum("5")), Arg(JStr("abc")), Arg(JTrue)}
EmptyArray == Arg([t |-> "array", v |-> ""])

\* the updates setParams is called with: the empty one, every single field,
\* every modelName with every paletteId, both flags, and the non-objects
Updates(mods, pals) ==
    {Obj(NoProps), EmptyArray} \cup NonObjects
    \cup {Obj(With("modelName", m)) : m \in ModelNameInputs(mods)}
    \cup {Obj(With("paletteId", q)) : q \in PaletteIdInputs(pals)}
    \cup {Obj(With("isPortrait", b)) : b \in IsPortraitInputs}
    \cup {Obj(With("isDarkMode", b)) : b \in IsDarkModeInputs}
    \cup {Obj(Props(m, q, JUndef, JUndef)) :
              m \in ModelNameInputs(mods), q \in PaletteIdInputs(pals)}
    \cup {Obj(Props(JUndef, JUndef, b, d)) : b \in {JTrue, JFalse}, d \in {JTrue, JFalse}}

\* the updates a destroyed picker is called with: every subset of the four
\* properties, with values that pass the tests of _setParams, and the non-objects
UpdatesAfterDestroy(mods) ==
    NonObjects
    \cup {Obj(Props(m, q, b, d)) :
              m \in {JUndef, JStr(mods[1].name)}, q \in {JUndef, JStr("bw")},
              b \in {JUndef, JTrue}, d \in {JUndef, JFalse}}

StoredObject(o) == Text("object", "", JSONStringify(o).kv)

\* the records the store may hold: any subset of the four keys, any input value
StoredObjects(mods, pals) ==
    {StoredObject(Props(m, q, b, d)) :
        m \in ModelNameInputs(mods) \cup {JUndef},
        q \in PaletteIdInputs(pals) \cup {JUndef},
        b \in IsPortraitInputs \cup {JUndef},
        d \in IsDarkModeInputs \cup {JUndef}}

StoredScalars ==
    {NoEntry, Text("raw", "", <<>>), Text("raw", "not json", <<>>),
     Text("null", "", <<>>), Text("boolean", "true", <<>>), Text("number", "5", <<>>),
     Text("number", "0", <<>>), Text("string", "abc", <<>>), Text("array", "", <<>>)}

\* a record of the last model of the catalog with a palette it references
SavedRecord(mods) ==
    StoredObject(Props(JStr(mods[Len(mods)].name), JStr("gray-4"), JTrue, JFalse))

\* the store contents a picker is operated from: no entry, broken text, a
\* number, the empty record, a full record, a record that names only a model
\* and one whose model is not eligible
StoredSamples(mods) ==
    {NoEntry, Text("raw", "not json", <<>>), Text("number", "5", <<>>),
     StoredObject(NoProps), SavedRecord(mods),
     StoredObject(With("modelName", JStr(mods[1].name))),
     StoredObject(Props(JStr("ghost"), JStr("bw"), JFalse, JFalse))}

NoCall == [op |-> "new", origin |-> "", params |-> Arg(JUndef)]
NoRet == [changed |-> FALSE, threw |-> FALSE, stateChanged |-> FALSE]
NoIo == [reads |-> 0, writes |-> 0, text |-> NoEntry]
NoRead == [n |-> 0, threw |-> FALSE, classes |-> <<>>]

\* the listeners of 'trmnl:change' on the form, by what their handler does;
\* the dispatchEvent calls in progress, the innermost last, each with its
\* event and the index of the listener it calls next; and the detail each
\* listener received last
Listening(l) ==
    [listeners |-> l, stack |-> <<>>, heard |-> [i \in DOMAIN l |-> [origin |-> ""]]]
NoListeners == Listening(<<>>)

\* this.formElement.dispatchEvent(event): with listeners on the form, a
\* dispatch begins; they are added once the picker is constructed
dispatchEvent(d, live, evts) ==
    IF live /\ d.listeners # <<>> /\ evts # <<>>
    THEN [d EXCEPT !.stack = Append(@, [event |-> evts[1], next |-> 1])]
    ELSE d

-----------------------------------------------------------------------------
(* The variant src/unnamed/part_001: its state and _calculateScreenClasses.  *)
(* A class is [pre, s]: a string that starts with 'screen--', written as a   *)
(* literal or built by the template `screen--${s}`, has pre 'screen--' and   *)
(* the rest as s; any other string has pre '' and is s.                      *)

Template(x) == [pre |-> "screen--", s |-> x]
Verbatim(x) == [pre |-> "", s |-> x]

\* models with a name and a size ('' when the model has none)
Models_001 ==
    {[name |-> "og_plus", size |-> "md"], [name |-> "trmnl_original", size |-> "2.9"],
     [name |-> "kindle_2024", size |-> ""], [name |-> "inky_impression", size |-> "lg"]}

\* selectedPalette: undefined when find() gave none, else a palette, whose
\* framework_class may be ''
Palettes_001 ==
    {[t |-> "undefined", id |-> "", framework_class |-> ""],
     [t |-> "object", id |-> "bw", framework_class |-> "palette-bw"],
     [t |-> "object", id |-> "gray-4", framework_class |-> "palette-gray-4"],
     [t |-> "object", id |-> "color-6", framework_class |-> "palette-color-6"],
     [t |-> "object", id |-> "blank", framework_class |-> ""]}

\* this.state of a constructed picker of the variant
States_001 ==
    {[selectedModel |-> [t |-> "object", name |-> m.name, size |-> m.size],
      selectedPalette |-> q, isPortrait |-> b, isDarkMode |-> d] :
        m \in Models_001, q \in Palettes_001, b \in BOOLEAN, d \in BOOLEAN}

NoResult == [done |-> FALSE, threw |-> FALSE, classes |-> <<>>]

\* no picker of the variant
None_001 ==
    [state |-> [selectedModel |-> [t |-> "null", name |-> "", size |-> ""],
                selectedPalette |-> [t |-> "undefined", id |-> "", framework_class |-> ""],
                isPortrait |-> FALSE, isDarkMode |-> FALSE],
     result |-> NoResult]

\* a class list that names the orientation only in portrait
_calculateScreenClasses_noLandscape(st) ==
    IF st.selectedModel.t # "object" THEN [done |-> TRUE, threw |-> TRUE, classes |-> <<>>]
    ELSE [done |-> TRUE, threw |-> FALSE,
          classes |->
              (IF st.selectedPalette.t = "object" /\ st.selectedPalette.framework_class # ""
               THEN <<Verbatim(st.selectedPalette.framework_class)>> ELSE <<>>)
              \o <<Template(st.selectedModel.name)>>
              \o (IF st.selectedModel.size # "" THEN <<Template(st.selectedModel.size)>> ELSE <<>>)
              \o (IF st.isPortrait THEN <<Template("portrait")>> ELSE <<>>)
              \o <<Template("1x")>>
              \o (IF st.isDarkMode THEN <<Template("dark-mode")>> ELSE <<>>)]

\* _calculateScreenClasses(): it throws when no model is selected
_calculateScreenClasses(st) ==
    IF st.selectedModel.t # "object" THEN [done |-> TRUE, threw |-> TRUE, classes |-> <<>>]
    ELSE [done |-> TRUE, threw |-> FALSE,
          classes |->
              (IF st.selectedPalette.t = "object" /\ st.selectedPalette.framework_class # ""
               THEN <<Verbatim(st.selectedPalette.framework_class)>> ELSE <<>>)
              \o <<Template(st.selectedModel.name)>>
              \o (IF st.selectedModel.size # "" THEN <<Template(st.selectedModel.size)>> ELSE <<>>)
              \o <<Template(IF st.isPortrait THEN "portrait" ELSE "landscape")>>
              \o <<Template("1x")>>
              \o (IF st.isDarkMode THEN <<Template("dark-mode")>> ELSE <<>>)]

-----------------------------------------------------------------------------
(* The variant src/unnamed/part_000.  A picker is [models, palettes,        *)
(* localStorageKey, state, elements]; state.selectedModel and               *)
(* state.selectedPalette are references to a model and a palette of the     *)
(* catalog (JRef), null, or undefined where find() gave nothing.            *)

\* og_plus is present and another model is labelled 'TRMNL OG'
CatalogOG ==
    [models |-> << Model("og_plus", "TRMNL OG+", "trmnl", <<"bw", "gray-4">>,
                         "screen--og", "screen--md"),
                   Model("v1", "TRMNL OG", "byod", <<"blank", "gray-4", "bw">>,
                         "screen--v1", "") >>,
     palettes |-> << Palette("bw", "Black & White", "screen--1bit"),
                     Palette("blank", "Blank", ""),
                     Palette("gray-4", "4 Grays", "screen--2bit") >>]

\* trmnl_original is present, it is not the first model of the combined order
CatalogOriginal ==
    [models |-> << Model("trmnl_original", "", "byod", <<"gray-4", "bw">>, "screen--og", ""),
                   Model("inky", "", "byod", <<"blank", "bw">>, "", "screen--sm") >>,
     palettes |-> << Palette("bw", "Black & White", "screen--1bit"),
                     Palette("blank", "Blank", ""),
                     Palette("gray-4", "4 Grays", "screen--2bit") >>]

Catalogs_000 == Catalogs \cup {CatalogOG, CatalogOriginal}

\* sortedModels.find(named 'og' or labelled 'trmnl og') || find(og_plus) ||
\* find(trmnl_original) || sortedModels[0]
defaultModel_000(sorted) ==
    LET OG(m) == m.name = "og" \/ (m.label # "" /\ ToLowerCase(m.label) = "trmnl og")
        Plus(m) == m.name = "og_plus"
        Original(m) == m.name = "trmnl_original"
    IN  IF FindIndex(sorted, OG) # 0 THEN sorted[FindIndex(sorted, OG)]
        ELSE IF FindIndex(sorted, Plus) # 0 THEN sorted[FindIndex(sorted, Plus)]
        ELSE IF FindIndex(sorted, Original) # 0 THEN sorted[FindIndex(sorted, Original)]
        ELSE sorted[1]

\* the model of savedState.modelName when there is one, else the default
initialModel(self, saved) ==
    IF /\ Truthy(saved)
       /\ Truthy(saved.o.modelName)
       /\ findModel(self.models, saved.o.modelName) # 0
    THEN self.models[findModel(self.models, saved.o.modelName)]
    ELSE defaultModel_000(sortedModels(self.models))

\* a start that takes any usable stored palette, referenced by the model or not
initialPaletteId_anyUsable(self, saved, model) ==
    IF /\ Truthy(saved)
       /\ Truthy(saved.o.paletteId)
       /\ isValidPalette(self.palettes, saved.o.paletteId)
    THEN saved.o.paletteId
    ELSE _getFirstValidPaletteId(self.palettes, model)

\* savedState.paletteId when its palette is usable and among the palette_ids
\* of the selected model, else the first usable palette of the model
initialPaletteId(self, saved, model) ==
    IF /\ Truthy(saved)
       /\ Truthy(saved.o.paletteId)
       /\ isValidPalette(self.palettes, saved.o.paletteId)
       /\ \E k \in DOMAIN model.palette_ids : JStr(model.palette_ids[k]) = saved.o.paletteId
    THEN saved.o.paletteId
    ELSE _getFirstValidPaletteId(self.palettes, model)

\* paletteSelect.value = paletteId; state.selectedPalette =
\* this.palettes.find(p => p.id === paletteId), a reference or undefined
withPalette_000(self, paletteId) ==
    [self EXCEPT !.elements.paletteSelect = setValue(@, paletteId),
                 !.state.selectedPalette = IF findPalette(self.palettes, paletteId) # 0
                                           THEN JRef(paletteId.v) ELSE JUndef]

\* each flag is assigned, with its text, when the value given for it is a boolean
withBooleans(self, isPortrait, isDarkMode) ==
    [self EXCEPT
        !.state.isPortrait = IF isPortrait.t = "boolean" THEN isPortrait ELSE @,
        !.elements.orientationText =
            IF isPortrait.t # "boolean" THEN @
            ELSE IF Truthy(isPortrait) THEN "Portrait" ELSE "Landscape",
        !.state.isDarkMode = IF isDarkMode.t = "boolean" THEN isDarkMode ELSE @,
        !.elements.darkModeText =
            IF isDarkMode.t # "boolean" THEN @
            ELSE IF Truthy(isDarkMode) THEN "Dark Mode" ELSE "Light Mode"]

\* _updateResetButton of the variant: nothing is done while no model is
\* selected; else resetButton.disabled = isAtDefaults
_updateResetButton_000(self) ==
    IF ~Truthy(self.state.selectedModel) THEN self
    ELSE [self EXCEPT !.elements.resetButton.disabled =
            /\ \E first \in {_getFirstValidPaletteId(self.palettes,
                                 modelOf(self.models, self.state.selectedModel))} :
                  self.elements.paletteSelect.value =
                      (IF first.t = "null" THEN "null" ELSE first.v)
            /\ self.state.isPortrait = JFalse
            /\ self.state.isDarkMode = JFalse]

\* _saveToLocalStorage of the variant: the store after it holds
\* selectedModel?.name, selectedPalette?.id and the flags; a throw is caught
_saveToLocalStorage_000(self, env) ==
    IF ~Truthy(self.localStorageKey) \/ env.storageMode = "writeThrows" THEN env
    ELSE [env EXCEPT !.localStorage =
             JSONStringify([modelName |-> nameOf(self.state.selectedModel),
                            paletteId |-> nameOf(self.state.selectedPalette),
                            isPortrait |-> self.state.isPortrait,
                            isDarkMode |-> self.state.isDarkMode])]

\* _calculateScreenClasses of the variant, a model being selected
_calculateScreenClasses_000(self) ==
    classList(IF Truthy(self.state.selectedPalette)
              THEN paletteOf(self.palettes, self.state.selectedPalette).framework_class
              ELSE "",
              modelOf(self.models, self.state.selectedModel).device,
              modelOf(self.models, self.state.selectedModel).size,
              self.state.isPortrait, self.state.isDarkMode)

\* an operation of the variant that returns or throws before it does
\* anything: [self, env, threw, events]
nothingDone(self, env, threw) ==
    [self |-> self, env |-> env, threw |-> threw, events |-> <<>>]

\* _emitChangeEvent of the variant: the save, then the 'changed' event with
\* the classes and the state; calculating the classes throws 'No model
\* selected', after the save
_emitChangeEvent_000(self, env) ==
    [self |-> self,
     env |-> _saveToLocalStorage_000(self, env),
     threw |-> ~Truthy(self.state.selectedModel),
     events |-> IF ~Truthy(self.state.selectedModel) THEN <<>>
                ELSE <<[screenClasses |-> _calculateScreenClasses_000(self),
                        model |-> self.state.selectedModel,
                        palette |-> IF Truthy(self.state.selectedPalette)
                                    THEN self.state.selectedPalette ELSE JNull,
                        isPortrait |-> self.state.isPortrait,
                        isDarkMode |-> self.state.isDarkMode]>>]

\* the tail of the handlers: _updateResetButton, then _emitChangeEvent
refresh(self, env) == _emitChangeEvent_000(_updateResetButton_000(self), env)

\* modelSelect.value = model.name; state.selectedModel = model;
\* _populatePalettes()
withModel_000(self, model) ==
    _populateModelPalettes(
        [self EXCEPT !.elements.modelSelect = setValue(@, JStr(model.name)),
                     !.state.selectedModel = JRef(model.name)])

\* _setInitialState of the variant once savedState is read: the model select
\* gets the models in the combined order, the model and its palette are
\* selected, the flags of savedState are taken, the event is dispatched
initialize(self, env, saved, model) ==
    refresh(withBooleans(
                withPalette_000(
                    withModel_000([self EXCEPT !.elements.modelSelect =
                                       setOptions(@, names(sortedModels(self.models)))],
                                  model),
                    initialPaletteId(self, saved, model)),
                IF Truthy(saved) THEN saved.o.isPortrait ELSE JUndef,
                IF Truthy(saved) THEN saved.o.isDarkMode ELSE JUndef),
            env)

\* _setInitialState of the variant
_setInitialState_000(self, env) ==
    initialize(self, env, _loadFromLocalStorage(self, env).value,
               initialModel(self, _loadFromLocalStorage(self, env).value))

\* _handleModelChange of the variant, the model select holding the new
\* value: the model, its palette options and its first usable palette
_handleModelChange_000(self, env) ==
    IF findModel(self.models, JStr(self.elements.modelSelect.value)) = 0
    THEN nothingDone(self, env, FALSE)
    ELSE \* LET: const model = this.models.find(...)
         LET model == modelOf(self.models, JRef(self.elements.modelSelect.value))
         IN  refresh(withPalette_000(withModel_000(self, model),
                                     _getFirstValidPaletteId(self.palettes, model)),
                     env)

\* _handlePaletteChange of the variant, the palette select holding the new
\* value: state.selectedPalette = this.palettes.find(...)
_handlePaletteChange_000(self, env) ==
    refresh(withPalette_000(self, JStr(self.elements.paletteSelect.value)), env)

\* _toggleOrientation of the variant
_toggleOrientation_000(self, env) ==
    refresh(withBooleans(self, JBool(~Truthy(self.state.isPortrait)), JUndef), env)

\* _toggleDarkMode of the variant
_toggleDarkMode_000(self, env) ==
    refresh(withBooleans(self, JUndef, JBool(~Truthy(self.state.isDarkMode))), env)

\* _resetToDefaults of the variant
_resetToDefaults_000(self, env) ==
    IF ~Truthy(self.state.selectedModel) THEN nothingDone(self, env, FALSE)
    ELSE refresh(withBooleans(
                     withPalette_000(self,
                         _getFirstValidPaletteId(self.palettes,
                             modelOf(self.models, self.state.selectedModel))),
                     JFalse, JFalse),
                 env)

\* update: a config.modelName that names a model is selected in the model
\* select and in the state, with its palette options; the selected palette
\* is not assigned
updateModel(self, config) ==
    IF Truthy(config.o.modelName) /\ findModel(self.models, config.o.modelName) # 0
    THEN withModel_000(self, modelOf(self.models, JRef(config.o.modelName.v)))
    ELSE self

\* update: a config.paletteId that is the id of a palette is selected
updatePalette(self, config) ==
    IF Truthy(config.o.paletteId) /\ findPalette(self.palettes, config.o.paletteId) # 0
    THEN withPalette_000(self, config.o.paletteId)
    ELSE self

\* update(config) of the variant: it throws unless config is an object, and
\* it refreshes and dispatches when one of the four fields passed its test
update(self, env, config) ==
    IF ~Truthy(config) \/ ~TypeofObject(config) THEN nothingDone(self, env, TRUE)
    ELSE IF ~(\/ Truthy(config.o.modelName) /\ findModel(self.models, config.o.modelName) # 0
              \/ Truthy(config.o.paletteId)
                    /\ findPalette(self.palettes, config.o.paletteId) # 0
              \/ config.o.isPortrait.t = "boolean"
              \/ config.o.isDarkMode.t = "boolean")
    THEN nothingDone(self, env, FALSE)
    ELSE refresh(withBooleans(updatePalette(updateModel(self, config), config),
                              config.o.isPortrait, config.o.isDarkMode),
                 env)

\* the arguments of `new TRMNLPicker(form, { models, palettes, localStorageKey })`
\* of the variant, with the store as it is found
New_000(cat, key, env) ==
    [phase |-> "new",
     self |-> [models |-> cat.models, palettes |-> cat.palettes, localStorageKey |-> key,
               state |-> [selectedModel |-> JNull, selectedPalette |-> JNull,
                          isPortrait |-> JFalse, isDarkMode |-> JFalse],
               elements |-> FormElements],
     env |-> env, loaded |-> NoEntry, call |-> [op |-> "new", params |-> Arg(JUndef)], threw |-> FALSE, events |-> <<>>]

\* no picker of the variant
None_000 == [New_000(CatalogA, JUndef, [localStorage |-> NoEntry, storageMode |-> "ok"])
                EXCEPT !.phase = "none"]

-----------------------------------------------------------------------------
(* Init: the constructor's arguments and the store, before `new TRMNLPicker` *)

\* options with two non-empty arrays
WellFormedOptions ==
    {[models |-> Arr(cat.models), palettes |-> Arr(cat.palettes)] : cat \in Catalogs}

\* what stands in for a catalog array that is missing or malformed
NoArrays == {NotArr(JUndef), NotArr(JNull), NotArr(JStr("models")),
             NotArr(JRef("catalog")), Arr(<<>>)}

\* options of which one array, or both, is missing or malformed, and options
\* whose only model references no usable palette
MalformedOptions ==
    {[models |-> m, palettes |-> Arr(CatalogA.palettes)] : m \in NoArrays}
    \cup {[models |-> Arr(CatalogA.models), palettes |-> q] : q \in NoArrays}
    \cup {[models |-> NotArr(JUndef), palettes |-> NotArr(JUndef)],
          [models |-> Arr(<<CatalogA.models[2]>>), palettes |-> Arr(CatalogA.palettes)]}

\* everything but the options and the store's content.  Without a key the
\* store is not part of the picker's world, and a store that cannot be read
\* shows no content.
Start ==
    /\ phase = "new"
    /\ models = options.models.items
    /\ palettes = options.palettes.items
    /\ localStorageKey \in {JUndef, JStr("trmnl-picker")}
    /\ storageMode \in {"ok", "readThrows", "writeThrows"}
    /\ ~Truthy(localStorageKey) => storageMode = "ok"
    /\ _state = EmptyState
    /\ elements = FormElements
    /\ listening = {}
    /\ call = NoCall
    /\ afterReset = FALSE
    /\ ret = NoRet
    /\ events = <<>>
    /\ io = NoIo
    /\ lastRead = NoRead
    /\ seen = NoSeen

\* a picker that is then operated: the store can be read and holds one of the
\* samples, and a store that refuses writes holds the full record
Init ==
    /\ options \in WellFormedOptions
    /\ Start
    /\ part_001 = None_001
    /\ part_000 = None_000
    /\ delivery = NoListeners
    /\ storageMode # "readThrows"
    /\ localStorage \in StoredSamples(models)
    /\ ~Truthy(localStorageKey) => localStorage = NoEntry
    /\ storageMode = "writeThrows" => localStorage = SavedRecord(models)

\* a picker that is only constructed: the store holds any content, and the
\* options may lack a catalog array (then without a key)
InitAnyStore ==
    /\ options \in WellFormedOptions \cup MalformedOptions
    /\ Start
    /\ part_001 = None_001
    /\ part_000 = None_000
    /\ delivery = NoListeners
    /\ localStorage \in StoredScalars \cup StoredObjects(models, palettes)
    /\ ~Truthy(localStorageKey) \/ storageMode = "readThrows" => localStorage = NoEntry
    /\ options \in MalformedOptions => ~Truthy(localStorageKey)

\* the variables after operation op handed update p to _setParams and got r
Returned(op, origin, p, r, reads, text) ==
    /\ _state' = r.self._state
    /\ elements' = r.self.elements
    /\ localStorage' = r.env.localStorage
    /\ call' = [op |-> op, origin |-> origin, params |-> p]
    /\ afterReset' = (call.op = "reset")
    /\ ret' = [changed |-> r.changed, threw |-> r.threw,
               stateChanged |-> r.self._state # _state]
    /\ events' = r.events
    /\ io' = [reads |-> reads, writes |-> r.writes, text |-> text]
    /\ lastRead' = NoRead
    /\ seen' = r.seen
    /\ part_001' = part_001
    /\ part_000' = part_000

\* the same, with the dispatch of its event begun when the form has listeners
Finish(op, origin, p, r, reads, text) ==
    /\ Returned(op, origin, p, r, reads, text)
    /\ delivery' = dispatchEvent(delivery, phase = "live", r.events)

-----------------------------------------------------------------------------
(* The constructor *)

\* { modelName: defaultModel.name, paletteId: defaultPaletteId, false, false }
defaultParams(pals, model) ==
    Obj(Props(JStr(model.name), _getFirstValidPaletteId(pals, model), JFalse, JFalse))

\* if (savedParams) the stored record, else the defaults, through _setParams
initialParams(self, load) ==
    IF Truthy(load.value) THEN load.value
    ELSE defaultParams(self.palettes, defaultModel(self.models))

\* the model options in group order and this._state = {}
withModelOptions(self) ==
    [self EXCEPT !.elements.modelSelect = setOptions(@, names(sortedModels(self.models))),
                 !._state = EmptyState]

\* the stored record or the defaults go through _setParams: [params, load, r]
initialOutcome(self, env, load, p) ==
    [params |-> p, load |-> load, r |-> _setParams(self, env, "constructor", p)]

loadedState(self, env, load) == initialOutcome(self, env, load, initialParams(self, load))

\* _setInitialState: the model options, this._state = {}, the load, _setParams
_setInitialState(self, env) ==
    loadedState(withModelOptions(self), env,
                _loadFromLocalStorage(withModelOptions(self), env))

\* _bindEvents: a handler is added to each of the five controls
_bindEvents == {"modelChange", "paletteChange", "toggleOrientation", "toggleDarkMode", "reset"}

\* the constructor ends without _setInitialState: it returns an instance that
\* was not initialized, or it throws
endsEarly(threw) ==
    /\ phase' = IF threw THEN "failed" ELSE "bare"
    /\ listening' = listening
    /\ Finish("constructor", "constructor", Arg(JUndef),
              Outcome(Self, Env, FALSE, threw, <<>>, 0), 0, NoEntry)

\* new TRMNLPicker(form, { models, palettes, localStorageKey }) with a form
\* that has every control.  if (this.models && this.palettes): two arrays
\* that are not empty, or a throw; the models are filtered, then
\* _setInitialState runs; what it throws, the caller gets.  Without one of the
\* two the constructor returns, with nothing initialized.
Construct ==
    /\ phase = "new"
    /\ IF ~(Truthy(options.models) /\ Truthy(options.palettes))
       THEN models' = models /\ endsEarly(FALSE)
       ELSE IF ~isNonEmptyArray(options.models) \/ ~isNonEmptyArray(options.palettes)
       THEN models' = models /\ endsEarly(TRUE)
       ELSE \E valid \in {_filterValidModels(models, palettes)} :
          /\ models' = valid
          /\ IF valid = <<>>
             THEN endsEarly(TRUE)
             ELSE \E init \in {_setInitialState([Self EXCEPT !.models = valid], Env)} :
                     /\ phase' = IF init.r.threw THEN "failed" ELSE "live"
                     /\ listening' = listening \cup _bindEvents
                     /\ Finish("constructor", "constructor", init.params, init.r,
                               init.load.reads, init.load.text)
    /\ UNCHANGED <<options, palettes, localStorageKey, storageMode>>

-----------------------------------------------------------------------------
(* The operations of a constructed picker *)

\* what every operation leaves alone
Frame ==
    UNCHANGED <<phase, options, models, palettes, localStorageKey, storageMode, listening>>

\* _setParams on a destroyed picker: models, palettes and _state are null, so
\* the first branch whose test passes throws a TypeError before it assigns
\* anything; an update none of whose fields passes its test returns false
afterDestroy(self, env, p) ==
    IF ~Truthy(p) \/ ~TypeofObject(p)
    THEN Outcome(self, env, FALSE, TRUE, <<>>, 0)
    ELSE Outcome(self, env, FALSE,
                 \/ Truthy(p.o.modelName)
                 \/ Truthy(p.o.paletteId)
                 \/ p.o.isPortrait.t = "boolean"
                 \/ p.o.isDarkMode.t = "boolean",
                 <<>>, 0)

\* picker.setParams(p), on a picker in use or on a destroyed one
SetParams ==
    /\ phase \in {"live", "destroyed"}
    /\ \E p \in IF phase = "live" THEN Updates(models, palettes)
                                  ELSE UpdatesAfterDestroy(options.models.items) :
       \E r \in {IF phase = "live" THEN _setParams(Self, Env, "setParams", p)
                                   ELSE afterDestroy(Self, Env, p)} :
          Finish("setParams", "setParams", p, r, 0, NoEntry)
    /\ Frame

\* the user picks option v of a select: its value becomes v, then 'change' fires
pick(self, control, v) == [self EXCEPT !.elements[control].value = v]

\* _handleModelChange: { modelName: event.target.value }
HandleModelChange ==
    /\ phase = "live"
    /\ "modelChange" \in listening
    /\ \E v \in Range(elements.modelSelect.options) :
       \E p \in {Obj(With("modelName", JStr(v)))} :
       \E r \in {_setParams(pick(Self, "modelSelect", v), Env, "form", p)} :
          Finish("modelChange", "form", p, r, 0, NoEntry)
    /\ Frame

\* _handlePaletteChange: { paletteId: event.target.value }
HandlePaletteChange ==
    /\ phase = "live"
    /\ "paletteChange" \in listening
    /\ \E v \in Range(elements.paletteSelect.options) :
       \E p \in {Obj(With("paletteId", JStr(v)))} :
       \E r \in {_setParams(pick(Self, "paletteSelect", v), Env, "form", p)} :
          Finish("paletteChange", "form", p, r, 0, NoEntry)
    /\ Frame

\* the update of a toggle: { flag: !this._state[flag] }
negated(self, flag) == Obj(With(flag, JBool(~Truthy(self._state[flag]))))

\* _toggleOrientation: { isPortrait: !this._state.isPortrait }
_toggleOrientation(self, env) ==
    _setParams(self, env, "form", negated(self, "isPortrait"))

\* _toggleDarkMode: { isDarkMode: !this._state.isDarkMode }
_toggleDarkMode(self, env) ==
    _setParams(self, env, "form", negated(self, "isDarkMode"))

\* a click on the orientation toggle
ToggleOrientation ==
    /\ phase = "live"
    /\ "toggleOrientation" \in listening
    /\ \E p \in {negated(Self, "isPortrait")} :
       \E r \in {_toggleOrientation(Self, Env)} :
          Finish("toggleOrientation", "form", p, r, 0, NoEntry)
    /\ Frame

\* a click on the dark-mode toggle
ToggleDarkMode ==
    /\ phase = "live"
    /\ "toggleDarkMode" \in listening
    /\ \E p \in {negated(Self, "isDarkMode")} :
       \E r \in {_toggleDarkMode(Self, Env)} :
          Finish("toggleDarkMode", "form", p, r, 0, NoEntry)
    /\ Frame

\* the update of a reset: the first usable palette of the model, landscape, light
resetParams(self) ==
    Obj(Props(JUndef,
              _getFirstValidPaletteId(self.palettes, modelOf(self.models, self._state.model)),
              JFalse, JFalse))

\* _resetToModelDefaults: nothing without a model, else resetParams.  The
\* handler is the operation: it runs on a click of #reset-button, which the
\* form may declare as any element, and the disabled flag is not read by it
ResetToModelDefaults ==
    /\ phase = "live"
    /\ "reset" \in listening
    /\ IF ~Truthy(_state.model)
       THEN Finish("reset", "form", Arg(JUndef),
                   Outcome(Self, Env, FALSE, FALSE, <<>>, 0), 0, NoEntry)
       ELSE \E p \in {resetParams(Self)} :
            \E r \in {_setParams(Self, Env, "form", p)} :
               Finish("reset", "form", p, r, 0, NoEntry)
    /\ Frame

\* a teardown that leaves the handler of the reset button in place
removeListeners_keepReset(l) == l \ (_bindEvents \ {"reset"})

\* the five removeEventListener calls of destroy
removeListeners(l) == l \ _bindEvents

\* picker.destroy(): the listeners are removed, so that no control reaches a
\* handler any more, and six references are set to null.  On a destroyed
\* picker this.elements is null, and on an instance constructed without a
\* catalog it was never assigned: the first statement reads a property of null
\* or undefined and throws a TypeError, and nothing is assigned.
Destroy ==
    /\ phase \in {"live", "bare", "destroyed"}
    /\ IF phase = "live"
       THEN /\ phase' = "destroyed"
            /\ listening' = removeListeners(listening)
            /\ models' = JNull
            /\ palettes' = JNull
            /\ _state' = JNull
            /\ elements' = JNull
       ELSE UNCHANGED <<phase, listening, models, palettes, _state, elements>>
    /\ call' = [op |-> "destroy", origin |-> "", params |-> Arg(JUndef)]
    /\ afterReset' = (call.op = "reset")
    /\ ret' = [changed |-> FALSE, threw |-> phase # "live",
               stateChanged |-> phase = "live"]
    /\ events' = <<>>
    /\ io' = NoIo
    /\ lastRead' = NoRead
    /\ seen' = NoSeen
    /\ UNCHANGED <<options, localStorageKey, localStorage, storageMode, delivery,
                   part_001, part_000>>

Next ==
    \/ Construct
    \/ SetParams
    \/ HandleModelChange
    \/ HandlePaletteChange
    \/ ToggleOrientation
    \/ ToggleDarkMode
    \/ ResetToModelDefaults

Spec == Init /\ [][Next]_vars

\* construction alone, from every content of the store
SpecConstruct == InitAnyStore /\ [][Construct]_vars

\* a picker constructed with nothing stored, which is operated and destroyed
InitNoStore ==
    /\ Init
    /\ storageMode = "ok"
    /\ localStorage = NoEntry

\* a control of the form of a destroyed picker is used: a handler that is
\* still a listener runs on the null references and throws a TypeError; with
\* no listener nothing runs
UseControlAfterDestroy ==
    /\ phase = "destroyed"
    /\ \E op \in _bindEvents :
          Finish(op, "form", Arg(JUndef),
                 Outcome(Self, Env, FALSE, op \in listening, <<>>, 0), 0, NoEntry)
    /\ Frame

NextOrDestroy == Next \/ Destroy \/ UseControlAfterDestroy

SpecDestroy == InitNoStore /\ [][NextOrDestroy]_vars

\* an instance is constructed with any options and destroyed, once or again
ConstructOrDestroy == Construct \/ Destroy

SpecTeardown == InitAnyStore /\ [][ConstructOrDestroy]_vars

\* how many reads of screenClasses in a row are followed
MaxReads == 2

\* a getter that clears the dark mode it has reported
readScreenClasses_clearing(self) ==
    [self |-> [self EXCEPT !._state.isDarkMode = JFalse], read |-> screenClasses(self)]

\* picker.screenClasses: the instance after the read and what the read gave;
\* the getter builds a new array and assigns to no property
readScreenClasses(self) == [self |-> self, read |-> screenClasses(self)]

\* the caller reads picker.screenClasses
ReadScreenClasses ==
    /\ phase = "live"
    /\ lastRead.n < MaxReads
    /\ \E r \in {readScreenClasses(Self)} :
          /\ _state' = r.self._state
          /\ elements' = r.self.elements
          /\ lastRead' = [n |-> lastRead.n + 1, threw |-> r.read.threw,
                          classes |-> r.read.classes]
    /\ UNCHANGED <<localStorage, call, afterReset, ret, events, io, seen, delivery,
                   part_001, part_000>>
    /\ Frame

\* a picker constructed from an empty store or from the record '{}', which
\* selects no model
InitRead ==
    /\ Init
    /\ storageMode = "ok"
    /\ localStorage \in {NoEntry, StoredObject(NoProps)}

ControlsOrRead ==
    \/ Construct
    \/ HandleModelChange
    \/ HandlePaletteChange
    \/ ToggleOrientation
    \/ ToggleDarkMode
    \/ ResetToModelDefaults
    \/ ReadScreenClasses

\* a picker that is operated through its controls and whose screenClasses is
\* read in between
SpecRead == InitRead /\ [][ControlsOrRead]_vars

-----------------------------------------------------------------------------
(* Listeners that call setParams from their handler.  dispatchEvent calls   *)
(* the listeners in the order they were added, on the stack of the          *)
(* operation that dispatched; a setParams inside a handler runs to its end, *)
(* its own dispatch included, before the next listener is called.           *)

\* how many dispatches in progress, one inside the other, are followed
MaxDepth == 3

\* what a handler does with the detail it receives: nothing ("passive"),
\* setParams with the four values of the detail ("echo"), or
\* setParams({ isDarkMode: true }) unless the detail is dark ("darken")
ListenerSets == {<<"echo">>, <<"darken", "passive">>, <<"passive", "darken">>}

calls(kind, detail) == kind = "echo" \/ (kind = "darken" /\ detail.isDarkMode # JTrue)

handlerParams(kind, detail) ==
    IF kind = "echo"
    THEN Obj(Props(nameOf(detail.model), nameOf(detail.palette),
                   detail.isPortrait, detail.isDarkMode))
    ELSE Obj(With("isDarkMode", JTrue))

\* the picker is constructed with nothing stored, then the listeners are added
InitListeners ==
    /\ options \in WellFormedOptions
    /\ Start
    /\ storageMode = "ok"
    /\ localStorage = NoEntry
    /\ part_001 = None_001
    /\ part_000 = None_000
    /\ delivery \in {Listening(l) : l \in ListenerSets}

\* no dispatch is in progress: the picker is called from outside
Idle == delivery.stack = <<>>

\* the listener received the detail and is the next no more
received(d, i, detail) ==
    [d EXCEPT !.heard[i] = detail, !.stack[Len(d.stack)].next = i + 1]

\* the innermost dispatch calls its next listener; a handler that calls
\* setParams gets the whole of it, the dispatch of its event begun
Deliver ==
    /\ phase = "live"
    /\ ~Idle
    /\ \E top \in {delivery.stack[Len(delivery.stack)]} :
          /\ top.next <= Len(delivery.listeners)
          /\ IF calls(delivery.listeners[top.next], top.event)
             THEN /\ Len(delivery.stack) < MaxDepth
                  /\ \E p \in {handlerParams(delivery.listeners[top.next], top.event)} :
                     \E r \in {_setParams(Self, Env, "setParams", p)} :
                        /\ Returned("setParams", "setParams", p, r, 0, NoEntry)
                        /\ delivery' = dispatchEvent(received(delivery, top.next, top.event),
                                                     TRUE, r.events)
             ELSE /\ delivery' = received(delivery, top.next, top.event)
                  /\ UNCHANGED <<_state, elements, localStorage, call, afterReset, ret,
                                 events, io, lastRead, seen, part_001,
                                 part_000>>
    /\ Frame

\* every listener was called: the innermost dispatchEvent returns
Return ==
    /\ ~Idle
    /\ delivery.stack[Len(delivery.stack)].next > Len(delivery.listeners)
    /\ delivery' = [delivery EXCEPT !.stack = SubSeq(@, 1, Len(@) - 1)]
    /\ UNCHANGED <<_state, elements, localStorage, call, afterReset, ret, events, io,
                   lastRead, seen, part_001, part_000>>
    /\ Frame

\* a control is used while nothing is in progress
Control ==
    /\ Idle
    /\ \/ HandleModelChange
       \/ HandlePaletteChange
       \/ ToggleOrientation
       \/ ToggleDarkMode
       \/ ResetToModelDefaults

ListenersNext == Construct \/ Control \/ Deliver \/ Return

SpecListeners == InitListeners /\ [][ListenersNext]_vars

-----------------------------------------------------------------------------
(* The variant src/unnamed/part_001 on its own *)

\* a constructed picker of the variant in any of its states, and no picker of
\* src/src/index.js
Init_001 ==
    /\ options = [models |-> Arr(CatalogA.models), palettes |-> Arr(CatalogA.palettes)]
    /\ Start
    /\ localStorageKey = JUndef
    /\ localStorage = NoEntry
    /\ part_001 \in {[state |-> st, result |-> NoResult] : st \in States_001}
    /\ part_000 = None_000
    /\ delivery = NoListeners

\* the class list is calculated, as _emitChangeEvent and update() do
CalculateScreenClasses ==
    /\ ~part_001.result.done
    /\ part_001' = [part_001 EXCEPT !.result = _calculateScreenClasses(part_001.state)]
    /\ UNCHANGED <<phase, options, models, palettes, localStorageKey, _state, elements,
                   listening, localStorage, storageMode, call, afterReset, ret, events, io,
                   lastRead, seen, delivery, part_000>>

Spec_001 == Init_001 /\ [][CalculateScreenClasses]_vars

-----------------------------------------------------------------------------
(* The variant src/unnamed/part_000 on its own *)

\* no picker of src/src/index.js
Absent ==
    /\ options = [models |-> Arr(CatalogA.models), palettes |-> Arr(CatalogA.palettes)]
    /\ Start
    /\ localStorageKey = JUndef
    /\ localStorage = NoEntry
    /\ part_001 = None_001
    /\ delivery = NoListeners

\* the store a picker of the variant is constructed on: without a key it is
\* not looked at; a read that throws gives nothing
Stores_000(key, texts) ==
    IF ~Truthy(key) THEN {[localStorage |-> NoEntry, storageMode |-> "ok"]}
    ELSE {[localStorage |-> t, storageMode |-> m] : t \in texts, m \in {"ok", "writeThrows"}}
         \cup {[localStorage |-> NoEntry, storageMode |-> "readThrows"]}

\* a picker of the variant is about to be constructed on any store content
InitAnyStore_000 ==
    /\ Absent
    /\ \E cat \in Catalogs_000 : \E key \in {JUndef, JStr("trmnl-picker")} :
          part_000 \in {New_000(cat, key, env) :
                          env \in Stores_000(key, StoredScalars
                                                  \cup StoredObjects(cat.models, cat.palettes))}

\* a picker of the variant is about to be constructed with nothing stored or
\* with a record a picker saved
Init_000 ==
    /\ Absent
    /\ \E cat \in Catalogs_000 : \E key \in {JUndef, JStr("trmnl-picker")} :
          part_000 \in {New_000(cat, key, [localStorage |-> t, storageMode |-> "ok"]) :
                          t \in IF Truthy(key) THEN {NoEntry, SavedRecord(cat.models)}
                                               ELSE {NoEntry}}

\* the picker of src/src/index.js is left alone
Frame_000 ==
    UNCHANGED <<phase, options, models, palettes, localStorageKey, _state, elements,
                listening, localStorage, storageMode, call, afterReset, ret, events, io,
                lastRead, seen, delivery, part_001>>

\* the variant after operation op with argument p left r
Returned_000(op, p, r) ==
    /\ part_000' = [part_000 EXCEPT !.phase = "live", !.self = r.self, !.env = r.env,
                                    !.call = [op |-> op, params |-> p],
                                    !.threw = r.threw, !.events = r.events]
    /\ Frame_000

\* new TRMNLPicker(form, { models, palettes, localStorageKey }) of the variant
\* with a catalog that has an eligible model: the models are filtered, then
\* _setInitialState runs
Construct_000 ==
    /\ part_000.phase = "new"
    /\ \E self \in {[part_000.self EXCEPT
                        !.models = _filterValidModels(part_000.self.models,
                                                      part_000.self.palettes)]} :
       \E r \in {_setInitialState_000(self, part_000.env)} :
          /\ part_000' = [part_000 EXCEPT
                             !.phase = "live", !.self = r.self, !.env = r.env,
                             !.loaded = _loadFromLocalStorage(self, part_000.env).text,
                             !.call = [op |-> "constructor", params |-> Arg(JUndef)],
                             !.threw = r.threw, !.events = r.events]
          /\ Frame_000

\* picker.update(config)
Update_000 ==
    /\ part_000.phase = "live"
    /\ \E config \in Updates(part_000.self.models, part_000.self.palettes) :
       \E r \in {update(part_000.self, part_000.env, config)} :
          Returned_000("update", config, r)

\* a model is picked in the model select
HandleModelChange_000 ==
    /\ part_000.phase = "live"
    /\ \E v \in Range(part_000.self.elements.modelSelect.options) :
       \E r \in {_handleModelChange_000(pick(part_000.self, "modelSelect", v), part_000.env)} :
          Returned_000("modelChange", Arg(JStr(v)), r)

\* a palette is picked in the palette select
HandlePaletteChange_000 ==
    /\ part_000.phase = "live"
    /\ \E v \in Range(part_000.self.elements.paletteSelect.options) :
       \E r \in {_handlePaletteChange_000(pick(part_000.self, "paletteSelect", v),
                                          part_000.env)} :
          Returned_000("paletteChange", Arg(JStr(v)), r)

\* a click on the orientation toggle
ToggleOrientation_000 ==
    /\ part_000.phase = "live"
    /\ \E r \in {_toggleOrientation_000(part_000.self, part_000.env)} :
          Returned_000("toggleOrientation", Arg(JUndef), r)

\* a click on the dark-mode toggle
ToggleDarkMode_000 ==
    /\ part_000.phase = "live"
    /\ \E r \in {_toggleDarkMode_000(part_000.self, part_000.env)} :
          Returned_000("toggleDarkMode", Arg(JUndef), r)

\* a click on the reset button
ResetToDefaults_000 ==
    /\ part_000.phase = "live"
    /\ \E r \in {_resetToDefaults_000(part_000.self, part_000.env)} :
          Returned_000("reset", Arg(JUndef), r)

Next_000 ==
    \/ Construct_000
    \/ Update_000
    \/ HandleModelChange_000
    \/ HandlePaletteChange_000
    \/ ToggleOrientation_000
    \/ ToggleDarkMode_000
    \/ ResetToDefaults_000

Spec_000 == Init_000 /\ [][Next_000]_vars

SpecConstruct_000 == InitAnyStore_000 /\ [][Construct_000]_vars

-----------------------------------------------------------------------------
(* The catalog in the words of the properties *)

\* a palette with this id exists and its framework_class is not blank
Usable(id) ==
    \E i \in DOMAIN palettes :
        palettes[i].id = id /\ Trim(palettes[i].framework_class) # ""

\* some palette of the catalog has this id
KnownPalette(id) == \E i \in DOMAIN palettes : palettes[i].id = id

\* the usable ids of a model, in the order of its palette_ids
UsableIds(m) == SelectSeq(m.palette_ids, Usable)
FirstUsable(m) == UsableIds(m)[1]

\* name is the name of a model that references a usable palette
Eligible(name) ==
    \E i \in DOMAIN models : models[i].name = name /\ UsableIds(models[i]) # <<>>
ModelNamed(name) == models[CHOOSE i \in DOMAIN models : models[i].name = name]

\* the last operation was an update: setParams or a change of a select
UpdateOps == {"setParams", "modelChange", "paletteChange"}

-----------------------------------------------------------------------------
(* Properties *)

\* C1: in every state of a constructed picker that has a model selected, the
\* selected palette is non-null, usable, and listed in the palette_ids of the
\* selected model.
C1_SelectedPaletteUsableOfModel ==
    (phase = "live" /\ _state.model.t = "object") =>
        /\ _state.palette.t = "object"
        /\ Usable(_state.palette.v)
        /\ _state.palette.v \in Range(ModelNamed(_state.model.v).palette_ids)

\* the last call was setParams with an eligible modelName and a paletteId
NamesModelAndPalette ==
    /\ phase = "live"
    /\ call.op = "setParams"
    /\ call.params.t = "object"
    /\ call.params.o.modelName.t = "string"
    /\ Eligible(call.params.o.modelName.v)
    /\ call.params.o.paletteId.t = "string"

C3_UnchangedUpdateIsSilent ==
    (call.op \in UpdateOps /\ ~ret.threw /\ ~ret.stateChanged) =>
        /\ ~ret.changed
        /\ events = <<>>
        /\ io.writes = 0

\* C4: of two resets in a row, the first changes the state and dispatches one
\* event unless the state is at the defaults already, and the second changes
\* nothing and dispatches no event.
C4_SecondResetIsSilent ==
    /\ (call.op = "reset" /\ ~afterReset /\ ret.stateChanged) =>
           (ret.changed /\ Len(events) = 1)
    /\ (call.op = "reset" /\ afterReset) =>
           (~ret.changed /\ ~ret.stateChanged /\ events = <<>>)

\* the constructor found a record under the key
StoredRecord == call.op = "constructor" /\ io.text.kind = "object"

\* the model a validated record would select: its own when eligible, else the default
RecordModel ==
    IF call.params.o.modelName.t = "string" /\ Eligible(call.params.o.modelName.v)
    THEN ModelNamed(call.params.o.modelName.v)
    ELSE defaultModel(models)

\* the palette a validated record would select: its own when usable and
\* listed by that model, else the model's first usable palette
RecordPalette ==
    IF /\ call.params.o.paletteId.t = "string"
       /\ Usable(call.params.o.paletteId.v)
       /\ call.params.o.paletteId.v \in Range(RecordModel.palette_ids)
    THEN call.params.o.paletteId.v
    ELSE FirstUsable(RecordModel)

\* C5: whatever record the store holds, construction completes; a model name
\* that is not eligible gives way to the default model, a palette id that is
\* not a usable palette of the selected model gives way to that model's first
\* usable palette, and the valid fields of the record are applied.
C5_StoredRecordFallsBackPerField ==
    StoredRecord =>
        /\ phase = "live"
        /\ _state.model = JRef(RecordModel.name)
        /\ _state.palette = JRef(RecordPalette)
        /\ call.params.o.isPortrait.t = "boolean" =>
               _state.isPortrait = call.params.o.isPortrait
        /\ call.params.o.isDarkMode.t = "boolean" =>
               _state.isDarkMode = call.params.o.isDarkMode

\* C6: with nothing stored or with any record stored, construction completes
\* having dispatched exactly one event, of origin 'constructor', and no later
\* operation dispatches an event of that origin.
C6_OneInitialNotification ==
    /\ (call.op = "constructor" /\ io.text.kind \in {"absent", "object"}) =>
           /\ phase = "live"
           /\ Len(events) = 1
           /\ events[1].origin = "constructor"
    /\ call.op \notin {"new", "constructor"} =>
           \A i \in DOMAIN events : events[i].origin # "constructor"

\* the state the constructor computes when nothing is stored
DefaultState ==
    [model |-> JRef(defaultModel(models).name),
     palette |-> JRef(FirstUsable(defaultModel(models))),
     isPortrait |-> JFalse,
     isDarkMode |-> JFalse]

\* C7: when the store holds no record (nothing, text that is not JSON, JSON
\* that is a number, a string, a boolean, null or an array) or reading it
\* throws, construction completes and the picker starts from the defaults.
C7_ConstructionSurvivesAnyStoredText ==
    (call.op = "constructor" /\ io.text.kind # "object") =>
        /\ phase = "live"
        /\ _state = DefaultState

\* an update with one property only: an unknown model name or an unknown palette id
OnlyUnknownName(p) ==
    /\ p.t = "object"
    /\ \/ /\ p.o.modelName.t = "string"
          /\ ~Eligible(p.o.modelName.v)
          /\ p.o = With("modelName", p.o.modelName)
       \/ /\ p.o.paletteId.t = "string"
          /\ ~KnownPalette(p.o.paletteId.v)
          /\ p.o = With("paletteId", p.o.paletteId)

\* C8: on a picker in use, an update that names only an unknown model or only
\* an unknown palette leaves the selection and both flags as they were,
\* dispatches no event and leaves the store as it was.
C8_UnknownNameChangesNothing ==
    [][(phase = "live" /\ call'.op \in UpdateOps /\ OnlyUnknownName(call'.params)) =>
           /\ _state' = _state
           /\ localStorage' = localStorage
           /\ ~ret'.changed
           /\ ~ret'.threw
           /\ events' = <<>>
           /\ io'.writes = 0]_vars

\* C8 witness: setParams got such an update while a model was selected
C8_Witness ==
    /\ phase = "live"
    /\ call.op = "setParams"
    /\ OnlyUnknownName(call.params)
    /\ _state.model.t = "object"
    /\ ~ret.changed

\* an update with one property only: the name of an eligible model
OnlyModelName(p) ==
    /\ p.t = "object"
    /\ p.o.modelName.t = "string"
    /\ Eligible(p.o.modelName.v)
    /\ p.o = With("modelName", p.o.modelName)

\* C9: on a picker in use, an update that names only an eligible model b, by
\* setParams or by the model select, selects b and the first usable palette in
\* the order of b's palette_ids, and leaves isPortrait and isDarkMode as they
\* were.
C9_ModelAloneSelectsFirstUsable ==
    [][(phase = "live" /\ call'.op \in {"setParams", "modelChange"}
           /\ OnlyModelName(call'.params)) =>
           /\ ~ret'.threw
           /\ _state'.model = JRef(call'.params.o.modelName.v)
           /\ _state'.palette = JRef(FirstUsable(ModelNamed(call'.params.o.modelName.v)))
           /\ _state'.isPortrait = _state.isPortrait
           /\ _state'.isDarkMode = _state.isDarkMode]_vars

\* C9 witness: the model select changed the model of a portrait picker, and
\* the first of the model's palette_ids is not the palette selected
C9_Witness ==
    /\ phase = "live"
    /\ call.op = "modelChange"
    /\ OnlyModelName(call.params)
    /\ ret.stateChanged
    /\ _state.isPortrait = JTrue
    /\ _state.palette.t = "object"
    /\ _state.palette.v # ModelNamed(call.params.o.modelName.v).palette_ids[1]

\* a picker constructed now, with the same catalog, key and store
Reconstructed ==
    _setInitialState([Self EXCEPT !.models = _filterValidModels(models, palettes),
                                  !._state = EmptyState,
                                  !.elements = FormElements], Env).r

\* a picker with a key and a store that takes its writes, an eligible model
\* and a usable palette selected
Persisted ==
    /\ phase = "live"
    /\ Truthy(localStorageKey)
    /\ storageMode = "ok"
    /\ _state.model.t = "object"
    /\ Eligible(_state.model.v)
    /\ _state.palette.t = "object"
    /\ Usable(_state.palette.v)

\* C10: in every state of a picker with a key, an eligible model and a usable
\* palette, whose store takes its writes, a picker constructed with the same
\* catalog and key has the same model name, palette id, isPortrait and
\* isDarkMode.
C10_StoredRecordRestoresSelection ==
    Persisted =>
        /\ ~Reconstructed.threw
        /\ params(Reconstructed.self) = params(Self)

\* C10 witness: the last operation wrote a portrait selection whose palette is
\* not the first usable one of its model
C10_Witness ==
    /\ Persisted
    /\ io.writes = 1
    /\ _state.isPortrait = JTrue
    /\ _state.palette.v # FirstUsable(ModelNamed(_state.model.v))
    /\ localStorage = JSONStringify(params(Self))

\* a class, or nothing when the catalog gives none
Class(c) == IF c = "" THEN <<>> ELSE <<c>>

\* the framework_class of the palette with this id
ClassOfPalette(id) ==
    palettes[CHOOSE i \in DOMAIN palettes : palettes[i].id = id].framework_class

\* the class list of a selection state st whose model is selected
ClassesOfState(st) ==
    <<"screen">>
    \o (IF st.palette.t = "object" THEN Class(ClassOfPalette(st.palette.v)) ELSE <<>>)
    \o Class(ModelNamed(st.model.v).device)
    \o Class(ModelNamed(st.model.v).size)
    \o (IF st.isPortrait = JTrue THEN <<"screen--portrait">> ELSE <<>>)
    \o <<"screen--1x">>
    \o (IF st.isDarkMode = JTrue THEN <<"screen--dark-mode">> ELSE <<>>)

\* C11: while a model is selected, screenClasses is 'screen', the class of the
\* selected palette, the device class and the size class of the model (each
\* when there is one), 'screen--portrait' exactly when isPortrait,
\* 'screen--1x', and 'screen--dark-mode' exactly when isDarkMode, in this
\* order, with nothing for landscape and with duplicates kept.
C11_ClassListInOrder ==
    (phase = "live" /\ _state.model.t = "object") =>
        /\ ~screenClasses(Self).threw
        /\ screenClasses(Self).classes = ClassesOfState(_state)

\* C11 witness: a portrait, dark selection of a model that has a device class
\* and a size class gives the seven classes
C11_Witness ==
    /\ phase = "live"
    /\ _state.model.t = "object"
    /\ screenClasses(Self).classes =
          <<"screen", "screen--2bit", "screen--og", "screen--md",
            "screen--portrait", "screen--1x", "screen--dark-mode">>

\* C12: on a constructed picker, the construction and every later operation
\* that changed the selection state dispatched exactly one event, and no
\* operation dispatched more than one.
C12_OneEventPerChange ==
    phase = "live" =>
        /\ ret.stateChanged => Len(events) = 1
        /\ Len(events) <= 1

\* the option is a non-empty array
GivenArray(x) == x.t = "array" /\ Len(x.items) > 0

\* some model of the options references a usable palette of the options
SomeModelEligible ==
    \E i \in DOMAIN options.models.items :
       \E k \in DOMAIN options.models.items[i].palette_ids :
          \E j \in DOMAIN options.palettes.items :
             /\ options.palettes.items[j].id = options.models.items[i].palette_ids[k]
             /\ Trim(options.palettes.items[j].framework_class) # ""

\* C13: when models or palettes is absent, is no array or is an empty array,
\* or when no model is eligible, the constructor throws and the caller gets no
\* instance.
C13_MalformedCatalogThrows ==
    (/\ call.op = "constructor"
     /\ ~(GivenArray(options.models) /\ GivenArray(options.palettes) /\ SomeModelEligible)) =>
        (ret.threw /\ phase = "failed")

\* C14: after destroy(), setParams with an update object throws, dispatches no
\* event, writes nothing to the store and changes no state.
C14_SetParamsAfterDestroyThrows ==
    (phase = "destroyed" /\ call.op = "setParams" /\ call.params.t = "object") =>
        /\ ret.threw
        /\ ~ret.stateChanged
        /\ events = <<>>
        /\ io.writes = 0

\* a key is configured and the store takes reads and writes
StoreInUse == Truthy(localStorageKey) /\ storageMode = "ok"

\* the record the store holds, as JSON.parse gives it
StoredParams == JSONParse(localStorage).value.o

\* C15: with a key and a store that accepts writes, the store is read once by
\* the constructor and by no later operation, every operation that changed the
\* state wrote the record, and after an operation that dispatched an event
\* the stored record equals params.
C15_StoreFollowsState ==
    (StoreInUse /\ call.op # "new") =>
        /\ io.reads = (IF call.op = "constructor" THEN 1 ELSE 0)
        /\ ret.stateChanged => io.writes = 1
        /\ events # <<>> =>
              (localStorage.kind = "object" /\ StoredParams = params(Self))

\* C15 witness: the orientation toggle turned a stored landscape selection to
\* portrait, and the store holds the portrait record
C15_Witness ==
    /\ StoreInUse
    /\ call.op = "toggleOrientation"
    /\ ret.stateChanged
    /\ io.writes = 1
    /\ Len(events) = 1
    /\ localStorage.kind = "object"
    /\ StoredParams.isPortrait = JTrue
    /\ StoredParams = params(Self)

\* C16: when setItem throws, the operation that called it has applied its
\* change, dispatches its one event and returns without throwing.
C16_WriteFailureIsSwallowed ==
    (storageMode = "writeThrows" /\ io.writes > 0) =>
        /\ ~ret.threw
        /\ ret.changed
        /\ Len(events) = 1

\* C17: on a constructed picker with a model selected, the value of the model
\* select is the name of the selected model, the value of the palette select
\* is the id of the selected palette, and the options of the palette select
\* are the usable palettes of the selected model in palette_ids order.
C17_ControlsAgreeWithState ==
    (phase = "live" /\ _state.model.t = "object") =>
        /\ elements.modelSelect.value = _state.model.v
        /\ _state.palette.t = "object"
        /\ elements.paletteSelect.value = _state.palette.v
        /\ elements.paletteSelect.options = UsableIds(ModelNamed(_state.model.v))

\* the operations that a bound control starts
ControlOps == {"modelChange", "paletteChange", "toggleOrientation", "toggleDarkMode", "reset"}

\* C18: the origin of every event is 'constructor', 'form' or 'setParams':
\* 'constructor' exactly for the event of the construction, 'form' exactly
\* for the events of the model select, the palette select, the two toggles
\* and the reset button, 'setParams' exactly for the events of setParams.
C18_OriginNamesTheSource ==
    \A i \in DOMAIN events :
        /\ events[i].origin \in {"constructor", "form", "setParams"}
        /\ events[i].origin = "constructor" <=> call.op = "constructor"
        /\ events[i].origin = "form" <=> call.op \in ControlOps
        /\ events[i].origin = "setParams" <=> call.op = "setParams"

\* C18 witness: a reset that changed the state dispatched an event of origin 'form'
C18_Witness ==
    /\ call.op = "reset"
    /\ ret.stateChanged
    /\ Len(events) = 1
    /\ events[1].origin = "form"

\* C19: the detail of every dispatched event holds the model, the palette,
\* isPortrait and isDarkMode of the state the operation left, and its
\* screenClasses is the class list of that state.
C19_DetailIsTheNewState ==
    \A i \in DOMAIN events :
        /\ events[i].model = _state.model
        /\ events[i].palette = _state.palette
        /\ events[i].isPortrait = _state.isPortrait
        /\ events[i].isDarkMode = _state.isDarkMode
        /\ events[i].screenClasses = ClassesOfState(_state)

\* C19 witness: the dark-mode toggle dispatched an event whose detail is dark
\* and whose class list ends with 'screen--dark-mode'
C19_Witness ==
    /\ call.op = "toggleDarkMode"
    /\ Len(events) = 1
    /\ events[1].isDarkMode = JTrue
    /\ _state.isDarkMode = JTrue
    /\ events[1].screenClasses[Len(events[1].screenClasses)] = "screen--dark-mode"

\* a palette of the options has this id and a class that is not blank
UsableOption(id) ==
    \E j \in DOMAIN options.palettes.items :
        /\ options.palettes.items[j].id = id
        /\ Trim(options.palettes.items[j].framework_class) # ""

\* the model references a usable palette of the options
EligibleOption(m) == \E k \in DOMAIN m.palette_ids : UsableOption(m.palette_ids[k])

\* the first of the model's palette_ids that is usable
FirstUsableOption(m) == SelectSeq(m.palette_ids, UsableOption)[1]

\* C20: the constructor keeps exactly the models that reference a palette
\* which exists and has a non-blank class, in their order; the first usable
\* palette of each is the first of its palette_ids that is such a palette;
\* and with nothing stored the picker starts with the first usable palette of
\* its model.
C20_FilterAndFirstUsable ==
    (call.op = "constructor" /\ GivenArray(options.models) /\ GivenArray(options.palettes)) =>
        /\ models = SelectSeq(options.models.items, EligibleOption)
        /\ \A i \in DOMAIN models :
              _getFirstValidPaletteId(palettes, models[i]) = JStr(FirstUsableOption(models[i]))
        /\ (phase = "live" /\ io.text = NoEntry) =>
              _state.palette = JRef(FirstUsableOption(ModelNamed(_state.model.v)))

\* C20 witness: a model was filtered out, and the picker starts with og_plus
\* and palette bw, the second of its palette_ids
C20_Witness ==
    /\ call.op = "constructor"
    /\ phase = "live"
    /\ io.text = NoEntry
    /\ Len(models) < Len(options.models.items)
    /\ _state.model = JRef("og_plus")
    /\ _state.palette = JRef("bw")
    /\ ModelNamed("og_plus").palette_ids[2] = "bw"
    /\ ~UsableOption(ModelNamed("og_plus").palette_ids[1])

\* model i of the filtered catalog comes before model j in the combined order:
\* the 'trmnl' kind first, then the lower-cased label or name, then the position
ComesBefore(i, j) ==
    \/ models[i].kind = "trmnl" /\ models[j].kind # "trmnl"
    \/ /\ (models[i].kind = "trmnl") = (models[j].kind = "trmnl")
       /\ \/ sortKey(models[i]) < sortKey(models[j])
          \/ sortKey(models[i]) = sortKey(models[j]) /\ i < j

\* the model a picker starts with: the one named 'og_plus', else the first of
\* the combined order
PreferredOrFirst ==
    IF \E i \in DOMAIN models : models[i].name = "og_plus"
    THEN ModelNamed("og_plus")
    ELSE models[CHOOSE i \in DOMAIN models :
                    \A j \in DOMAIN models \ {i} : ComesBefore(i, j)]

\* the constructor ran with nothing under the key, or with no key
NothingStored == call.op = "constructor" /\ phase = "live" /\ io.text.kind = "absent"

\* C21: when nothing is stored, the picker starts with the eligible model
\* named 'og_plus' when there is one, else with the first model of the
\* combined order ('trmnl' models by lower-cased label or name, then the
\* others likewise), with that model's first usable palette, in landscape and
\* light mode.
C21_DefaultSelection ==
    NothingStored =>
        /\ _state.model = JRef(PreferredOrFirst.name)
        /\ _state.palette = JRef(FirstUsable(PreferredOrFirst))
        /\ _state.isPortrait = JFalse
        /\ _state.isDarkMode = JFalse

\* C21 witness: og_plus is the start although kindle comes first in the
\* combined order and in the model select
C21_Witness ==
    /\ NothingStored
    /\ _state.model = JRef("og_plus")
    /\ _state.palette = JRef("bw")
    /\ elements.modelSelect.options[1] = "kindle"
    /\ \A j \in DOMAIN models : models[j].name # "kindle" =>
           ComesBefore(CHOOSE i \in DOMAIN models : models[i].name = "kindle", j)

\* C21 second case: without og_plus the start is the first 'trmnl' model,
\* although another model comes first in the catalog and by label
C21_WitnessFirstOfOrder ==
    /\ NothingStored
    /\ \A i \in DOMAIN models : models[i].name # "og_plus"
    /\ _state.model = JRef("v2")
    /\ models[1].name # "v2"
    /\ \E i \in DOMAIN models : sortKey(models[i]) < sortKey(ModelNamed("v2"))

\* C22: a reset, from whatever state, leaves the selected model as it was,
\* selects the first usable palette of that model, sets landscape and light
\* mode, dispatches one event and writes the store once when a key is
\* configured.
C22_ResetRestoresDefaults ==
    [][(phase = "live" /\ call'.op = "reset") =>
           /\ ~ret'.threw
           /\ _state'.model = _state.model
           /\ _state'.model.t = "object"
           /\ _state'.palette = JRef(FirstUsable(ModelNamed(_state'.model.v)))
           /\ _state'.isPortrait = JFalse
           /\ _state'.isDarkMode = JFalse
           /\ Len(events') = 1
           /\ io'.writes = (IF Truthy(localStorageKey) THEN 1 ELSE 0)]_vars

\* the value x of property k is one an update ignores: a model name that is
\* not the name of an eligible model, a palette id of no palette, a flag that
\* is not a boolean
Malformed(k, x) ==
    /\ x.t # "undefined"
    /\ CASE k = "modelName" -> ~(x.t = "string" /\ Eligible(x.v))
         [] k = "paletteId" -> ~(x.t = "string" /\ KnownPalette(x.v))
         [] OTHER -> x.t # "boolean"

SomeMalformed(o) == \E k \in DOMAIN o : Malformed(k, o[k])

\* the update without its malformed properties
WellFormedPart(o) == [k \in DOMAIN o |-> IF Malformed(k, o[k]) THEN JUndef ELSE o[k]]

\* what setParams does from the current state with the well-formed part of o
WithoutMalformed(o) == _setParams(Self, Env, "setParams", Obj(WellFormedPart(o)))

\* C23: setParams with an argument that is no object (undefined, null, a
\* number, a string, a boolean) throws and leaves the selection state, the
\* controls and the store as they were, with no event; a malformed property
\* of an update object raises no error: the update does what it does without
\* that property, and an update with nothing but malformed properties
\* returns normally having changed nothing.
C23_NonObjectThrowsFieldsAreIgnored ==
    [][(phase = "live" /\ call'.op = "setParams") =>
           /\ ~TypeofObject(call'.params) \/ call'.params.t = "null" =>
                  /\ ret'.threw
                  /\ _state' = _state
                  /\ elements' = elements
                  /\ localStorage' = localStorage
                  /\ events' = <<>>
                  /\ io'.writes = 0
           /\ (call'.params.t = "object" /\ SomeMalformed(call'.params.o)) =>
                  /\ \E r \in {WithoutMalformed(call'.params.o)} :
                        /\ ret'.threw = r.threw
                        /\ _state' = r.self._state
                        /\ elements' = r.self.elements
                        /\ localStorage' = r.env.localStorage
                        /\ events' = r.events
                  /\ WellFormedPart(call'.params.o) = NoProps =>
                         (~ret'.threw /\ _state' = _state /\ events' = <<>>)]_vars

\* C23 witness: setParams(true) threw on a picker with a portrait selection
C23_Witness ==
    /\ phase = "live"
    /\ call.op = "setParams"
    /\ call.params = Arg(JTrue)
    /\ ret.threw
    /\ _state.model.t = "object"
    /\ _state.isPortrait = JTrue
    /\ events = <<>>

\* C23 second case: an update with an unknown model name and a known palette
\* id selected the palette and did not throw
C23_WitnessMalformedField ==
    /\ phase = "live"
    /\ call.op = "setParams"
    /\ call.params.t = "object"
    /\ Malformed("modelName", call.params.o.modelName)
    /\ call.params.o.paletteId.t = "string"
    /\ ~ret.threw
    /\ ret.stateChanged
    /\ _state.palette = JRef(call.params.o.paletteId.v)

\* C24: when no key is configured, no operation (the construction, an update,
\* a control, a reset, destroy) reads the store or writes to it, and the store
\* stays as it was.
C24_NoKeyNoStoreAccess ==
    ~Truthy(localStorageKey) =>
        /\ io.reads = 0
        /\ io.writes = 0
        /\ localStorage = NoEntry

\* C24 witness: without a key, a reset changed the state and dispatched its
\* event, and the store was not written
C24_Witness ==
    /\ ~Truthy(localStorageKey)
    /\ call.op = "reset"
    /\ ret.stateChanged
    /\ Len(events) = 1
    /\ io.writes = 0
    /\ localStorage = NoEntry

\* C24 second case: the picker without a key was destroyed
C24_WitnessDestroyed ==
    /\ ~Truthy(localStorageKey)
    /\ phase = "destroyed"
    /\ call.op = "destroy"
    /\ localStorage = NoEntry

OnlyFlags(p) ==
    /\ p.t = "object"
    /\ p.o.modelName.t = "undefined"
    /\ p.o.paletteId.t = "undefined"

\* C26: an update replaces isPortrait (isDarkMode) by the value it carries
\* exactly when that value is a boolean; any other value (a string, a number,
\* null) leaves the flag as it was, and an update that carries nothing but
\* such values dispatches no event; an update of the two flags only leaves
\* the selected model and palette as they were.
C26_FlagsTakeBooleansOnly ==
    [][call'.params.t = "object" =>
           /\ _state'.isPortrait = IF call'.params.o.isPortrait.t = "boolean"
                                   THEN call'.params.o.isPortrait
                                   ELSE _state.isPortrait
           /\ _state'.isDarkMode = IF call'.params.o.isDarkMode.t = "boolean"
                                   THEN call'.params.o.isDarkMode
                                   ELSE _state.isDarkMode
           /\ OnlyFlags(call'.params) =>
                  /\ _state'.model = _state.model
                  /\ _state'.palette = _state.palette
                  /\ (/\ call'.params.o.isPortrait.t # "boolean"
                      /\ call'.params.o.isDarkMode.t # "boolean") =>
                         (~ret'.changed /\ ~ret'.threw /\ events' = <<>> /\ io'.writes = 0)]_vars

\* C26 witness: setParams({ isPortrait: 'yes' }) left a landscape selection
\* in landscape and dispatched nothing
C26_Witness ==
    /\ phase = "live"
    /\ call.op = "setParams"
    /\ call.params = Obj(With("isPortrait", JStr("yes")))
    /\ _state.model.t = "object"
    /\ _state.isPortrait = JFalse
    /\ ~ret.changed
    /\ events = <<>>

\* C26 second case: setParams({ isPortrait: true, isDarkMode: true }) set both
C26_WitnessBooleans ==
    /\ phase = "live"
    /\ call.op = "setParams"
    /\ call.params = Obj(Props(JUndef, JUndef, JTrue, JTrue))
    /\ ret.stateChanged
    /\ _state.isPortrait = JTrue
    /\ _state.isDarkMode = JTrue
    /\ Len(events) = 1

\* the update carries a palette id and no model name
PaletteNoModel(p) ==
    /\ p.t = "object"
    /\ p.o.modelName.t = "undefined"
    /\ p.o.paletteId.t = "string"

\* C27: on a picker in use, an update with a paletteId and no modelName (by
\* setParams, the palette select or a reset) selects the palette of
\* the catalog with that id whenever there is one, whether or not the
\* selected model lists it, and leaves the selected model and the flags it
\* does not carry as they were; when no palette has that id the palette stays,
\* and an update of nothing else changes nothing and dispatches nothing.
C27_PaletteIdSelectsKnownPalette ==
    [][(phase = "live" /\ PaletteNoModel(call'.params)) =>
           /\ _state'.model = _state.model
           /\ _state'.palette = IF KnownPalette(call'.params.o.paletteId.v)
                                THEN JRef(call'.params.o.paletteId.v)
                                ELSE _state.palette
           /\ call'.params.o.isPortrait.t = "undefined" =>
                  _state'.isPortrait = _state.isPortrait
           /\ call'.params.o.isDarkMode.t = "undefined" =>
                  _state'.isDarkMode = _state.isDarkMode
           /\ (/\ ~KnownPalette(call'.params.o.paletteId.v)
               /\ call'.params.o = With("paletteId", call'.params.o.paletteId)) =>
                  /\ _state' = _state
                  /\ elements' = elements
                  /\ localStorage' = localStorage
                  /\ ~ret'.changed
                  /\ events' = <<>>]_vars

\* C27 witness: setParams({ paletteId }) selected a palette the model does
\* not list, on a portrait selection that stayed portrait
C27_Witness ==
    /\ phase = "live"
    /\ call.op = "setParams"
    /\ PaletteNoModel(call.params)
    /\ call.params.o = With("paletteId", call.params.o.paletteId)
    /\ ret.stateChanged
    /\ _state.model.t = "object"
    /\ _state.palette = JRef(call.params.o.paletteId.v)
    /\ _state.palette.v \notin Range(ModelNamed(_state.model.v).palette_ids)
    /\ _state.isPortrait = JTrue

\* C27 second case: the palette select changed the palette
C27_WitnessSelect ==
    /\ phase = "live"
    /\ call.op = "paletteChange"
    /\ ret.stateChanged
    /\ _state.palette = JRef(call.params.o.paletteId.v)
    /\ _state.isDarkMode = JTrue

\* the classes of list l that name an orientation
Orientations(l) ==
    {i \in DOMAIN l : l[i] \in {Template("portrait"), Template("landscape")}}

\* an optional class: nothing for ''
Optional(c) == IF c.s = "" THEN <<>> ELSE <<c>>

\* C28: in the variant src/unnamed/part_001 the class list is, in this order:
\* the framework_class of the palette, 'screen--' and the name of the model,
\* 'screen--' and its size (each when there is one), 'screen--portrait' or
\* 'screen--landscape' by isPortrait and never both, 'screen--1x', and
\* 'screen--dark-mode' exactly when dark mode is on.
C28_VariantClassOrder ==
    part_001.result.done =>
        /\ ~part_001.result.threw
        /\ part_001.result.classes =
              Optional(Verbatim(part_001.state.selectedPalette.framework_class))
              \o <<Template(part_001.state.selectedModel.name)>>
              \o Optional(Template(part_001.state.selectedModel.size))
              \o <<IF part_001.state.isPortrait THEN Template("portrait")
                                                ELSE Template("landscape")>>
              \o <<Template("1x")>>
              \o (IF part_001.state.isDarkMode THEN <<Template("dark-mode")>> ELSE <<>>)
        /\ Cardinality(Orientations(part_001.result.classes)) = 1

\* C28 witness: a landscape, dark selection with a palette class and a size
\* gives the six classes
C28_Witness ==
    /\ part_001.result.done
    /\ part_001.result.classes =
          <<Verbatim("palette-bw"), Template("og_plus"), Template("md"),
            Template("landscape"), Template("1x"), Template("dark-mode")>>

\* C29: in every state of a picker whose construction with a catalog
\* completed, whatever the store held, a model is selected and reading
\* screenClasses does not throw.
C29_ModelAlwaysSelected ==
    phase = "live" =>
        /\ _state.model.t = "object"
        /\ ~screenClasses(Self).threw

\* C30: when an operation dispatches its event, the state and the controls
\* are updated and the record is written already: a listener that reads
\* params, screenClasses or the store in its handler finds the values of the
\* detail it received, and what it finds is what the caller finds when the
\* operation returns.
C30_ListenerSeesTheFinalState ==
    events # <<>> =>
        /\ seen.heard
        /\ seen.params.modelName = nameOf(events[1].model)
        /\ seen.params.paletteId = nameOf(events[1].palette)
        /\ seen.params.isPortrait = events[1].isPortrait
        /\ seen.params.isDarkMode = events[1].isDarkMode
        /\ seen.classes = events[1].screenClasses
        /\ StoreInUse =>
               /\ seen.localStorage.kind = "object"
               /\ JSONParse(seen.localStorage).value.o = seen.params
        /\ seen.params = params(Self)
        /\ seen.classes = screenClasses(Self).classes
        /\ seen.elements = elements
        /\ seen.localStorage = localStorage

\* C30 witness: the listener of a model change found the new model and its
\* palette in params, in the palette select and in the stored record, which
\* the operation had written
C30_Witness ==
    /\ StoreInUse
    /\ call.op = "modelChange"
    /\ ret.stateChanged
    /\ io.writes = 1
    /\ Len(events) = 1
    /\ seen.heard
    /\ seen.params.modelName = call.params.o.modelName
    /\ seen.elements.paletteSelect.value = seen.params.paletteId.v
    /\ JSONParse(seen.localStorage).value.o.modelName = call.params.o.modelName

\* C31: with a listener that answers every event by setParams with the four
\* values of its detail, the dispatches in progress stay fewer than MaxDepth:
\* the echo of an event dispatches no further event.
C31_EchoTerminates ==
    delivery.listeners = <<"echo">> => Len(delivery.stack) < MaxDepth

\* the detail is the selection state and its class list
CurrentDetail(detail) ==
    /\ detail.model = _state.model
    /\ detail.palette = _state.palette
    /\ detail.isPortrait = _state.isPortrait
    /\ detail.isDarkMode = _state.isDarkMode
    /\ detail.screenClasses = ClassesOfState(_state)

\* C32: with two listeners of which the first calls setParams with a change
\* from its handler, once the outermost operation has returned the detail
\* each listener received last is the state of the picker, and the store
\* holds params.
C32_EveryListenerHasTheLastState ==
    (/\ phase = "live"
     /\ Idle
     /\ Len(delivery.listeners) >= 2
     /\ delivery.listeners[1] = "darken") =>
        \A i \in DOMAIN delivery.heard :
            delivery.heard[i].origin # "" =>
                /\ CurrentDetail(delivery.heard[i])
                /\ StoreInUse => (localStorage.kind = "object" /\ StoredParams = params(Self))

\* the state is at the defaults of its model
AtDefaults ==
    /\ _state.palette = JRef(FirstUsable(ModelNamed(_state.model.v)))
    /\ _state.isPortrait = JFalse
    /\ _state.isDarkMode = JFalse

\* C33: after every operation that dispatched an event, the reset button is
\* disabled exactly when the selected palette is the first usable palette of
\* the selected model, isPortrait is false and isDarkMode is false.
C33_ResetDisabledAtDefaults ==
    (phase = "live" /\ events # <<>>) =>
        /\ _state.model.t = "object"
        /\ elements.resetButton.disabled <=> AtDefaults

\* C33 witness: a reset that changed the state left the button disabled
C33_Witness ==
    /\ phase = "live"
    /\ call.op = "reset"
    /\ ret.stateChanged
    /\ Len(events) = 1
    /\ AtDefaults
    /\ elements.resetButton.disabled

\* C33 second case: a palette other than the first usable one, in landscape
\* and light mode, leaves the button enabled
C33_WitnessEnabled ==
    /\ phase = "live"
    /\ call.op = "paletteChange"
    /\ Len(events) = 1
    /\ _state.isPortrait = JFalse
    /\ _state.isDarkMode = JFalse
    /\ _state.palette # JRef(FirstUsable(ModelNamed(_state.model.v)))
    /\ ~elements.resetButton.disabled

\* C34: on a destroyed picker no control has a handler of the picker as a
\* listener; using a control changes no state, dispatches no event and writes
\* nothing to the store, and no operation dispatches an event any more.
C34_NoListenerAfterDestroy ==
    phase = "destroyed" =>
        /\ listening = {}
        /\ events = <<>>
        /\ call.op \in _bindEvents =>
               (~ret.threw /\ ~ret.changed /\ ~ret.stateChanged /\ io.writes = 0)

\* C34 witness: the reset button of a destroyed picker was clicked and the
\* store still holds the record of the picker's last state
C34_Witness ==
    /\ phase = "destroyed"
    /\ call.op = "reset"
    /\ listening = {}
    /\ events = <<>>
    /\ Truthy(localStorageKey)
    /\ localStorage.kind = "object"
    /\ StoredParams.isPortrait = JTrue

\* C35: destroy() returns without throwing on every instance the constructor
\* returned, also on one constructed without a catalog and on one that was
\* destroyed before; after a repeated call the picker is still torn down.
C35_DestroyNeverThrows ==
    call.op = "destroy" =>
        /\ ~ret.threw
        /\ phase = "destroyed" => (models = JNull /\ _state = JNull /\ listening = {})

\* the flag of a toggle, and one more click on the toggle of instance self
FlagOf(op) == IF op = "toggleOrientation" THEN "isPortrait" ELSE "isDarkMode"

ClickAgain(op, self, env) ==
    IF op = "toggleOrientation" THEN _toggleOrientation(self, env)
                                ELSE _toggleDarkMode(self, env)

\* C36: a click on the orientation toggle or on the dark-mode toggle negates
\* its own flag and leaves the rest of the state, and dispatches one event of
\* origin 'form'; a second click on the same toggle does the same and gives
\* back the state and the class list from before the first click.
C36_TogglesAreInvolutions ==
    [][(phase = "live" /\ call'.op \in {"toggleOrientation", "toggleDarkMode"}) =>
          \E k \in {FlagOf(call'.op)} :
          \E second \in {ClickAgain(call'.op, Self', Env')} :
             /\ ~ret'.threw
             /\ _state[k].t = "boolean"
             /\ _state' = [_state EXCEPT ![k] = JBool(~Truthy(@))]
             /\ Len(events') = 1
             /\ events'[1].origin = "form"
             /\ ~second.threw
             /\ second.self._state = _state
             /\ screenClasses(second.self) = screenClasses(Self)
             /\ Len(second.events) = 1
             /\ second.events[1].origin = "form"]_vars

\* the value the stored text gave for property k at the construction of the
\* variant: undefined when nothing was read, when the text is not JSON and
\* when the JSON value has no such property
StoredValue(k) ==
    IF part_000.loaded.kind \in {"absent", "raw"} THEN JUndef
    ELSE JSONParse(part_000.loaded).value.o[k]

\* palette id names a palette of the variant's catalog with a class that is not blank
Usable_000(id) ==
    \E i \in DOMAIN part_000.self.palettes :
        /\ part_000.self.palettes[i].id = id
        /\ Trim(part_000.self.palettes[i].framework_class) # ""

\* the model named name in the options of the variant; it is eligible when it
\* references a usable palette
Model_000(name) ==
    part_000.self.models[CHOOSE i \in DOMAIN part_000.self.models :
                             part_000.self.models[i].name = name]

\* the variant kept exactly the eligible models, so a kept name is an eligible one
Eligible_000(x) ==
    /\ x.t = "string"
    /\ \E i \in DOMAIN part_000.self.models :
          /\ part_000.self.models[i].name = x.v
          /\ \E k \in DOMAIN part_000.self.models[i].palette_ids :
                Usable_000(part_000.self.models[i].palette_ids[k])

FirstUsable_000(m) == SelectSeq(m.palette_ids, Usable_000)[1]

\* palette id x is usable and among the palette_ids of model m
UsableOf(x, m) ==
    /\ x.t = "string"
    /\ Usable_000(x.v)
    /\ \E k \in DOMAIN m.palette_ids : m.palette_ids[k] = x.v

\* model i of the variant comes before model j in the combined order: the
\* 'trmnl' kind first, then the lower-cased label or name, then the position
Before_000(i, j) ==
    \E a \in {part_000.self.models[i]} : \E b \in {part_000.self.models[j]} :
        \/ a.kind = "trmnl" /\ b.kind # "trmnl"
        \/ /\ (a.kind = "trmnl") = (b.kind = "trmnl")
           /\ \/ sortKey(a) < sortKey(b)
              \/ sortKey(a) = sortKey(b) /\ i < j

\* the models named or labelled as given, by position
Named(ns) == {i \in DOMAIN part_000.self.models : part_000.self.models[i].name \in ns}
Labelled(l) ==
    {i \in DOMAIN part_000.self.models : ToLowerCase(part_000.self.models[i].label) = l}

\* the first model of the combined order among those at the positions S
FirstOf(S) ==
    part_000.self.models[CHOOSE i \in S : \A j \in S \ {i} : Before_000(i, j)]

\* the default model of the variant: a model named 'og' or labelled
\* 'trmnl og', else og_plus, else trmnl_original, else the first model
Default_000 ==
    IF Named({"og"}) \cup Labelled("trmnl og") # {}
    THEN FirstOf(Named({"og"}) \cup Labelled("trmnl og"))
    ELSE IF Named({"og_plus"}) # {} THEN FirstOf(Named({"og_plus"}))
    ELSE IF Named({"trmnl_original"}) # {} THEN FirstOf(Named({"trmnl_original"}))
    ELSE FirstOf(DOMAIN part_000.self.models)

\* the flag the variant starts with: the stored one when it is a boolean
StoredFlag(k) == IF StoredValue(k).t = "boolean" THEN StoredValue(k) ELSE JFalse

\* C37: in the variant src/unnamed/part_000 the constructor, whatever the
\* store holds, selects the stored model when it is eligible and else the
\* default model; the stored palette when it is usable and referenced by the
\* selected model and else the first usable palette of that model; the stored
\* flags when they are booleans and else false; and it dispatches one event.
C37_StoredRecordValidatedPerField ==
    (part_000.phase = "live" /\ part_000.call.op = "constructor") =>
        /\ ~part_000.threw
        /\ part_000.self.state.selectedModel =
              JRef(IF Eligible_000(StoredValue("modelName"))
                   THEN StoredValue("modelName").v
                   ELSE Default_000.name)
        /\ \E m \in {Model_000(part_000.self.state.selectedModel.v)} :
              part_000.self.state.selectedPalette =
                 JRef(IF UsableOf(StoredValue("paletteId"), m)
                      THEN StoredValue("paletteId").v
                      ELSE FirstUsable_000(m))
        /\ part_000.self.state.isPortrait = StoredFlag("isPortrait")
        /\ part_000.self.state.isDarkMode = StoredFlag("isDarkMode")
        /\ Len(part_000.events) = 1

\* C37 witness: the stored record names an eligible model, a usable palette
\* that model does not reference and a flag that is a string; the model is
\* taken, the palette is the model's first usable one, the flag is false
C37_Witness ==
    /\ part_000.phase = "live"
    /\ part_000.call.op = "constructor"
    /\ StoredValue("modelName") = JStr("kindle")
    /\ StoredValue("paletteId") = JStr("bw")
    /\ StoredValue("isPortrait") = JStr("yes")
    /\ StoredValue("isDarkMode") = JTrue
    /\ part_000.self.state =
          [selectedModel |-> JRef("kindle"), selectedPalette |-> JRef("gray-4"),
           isPortrait |-> JFalse, isDarkMode |-> JTrue]
    /\ Len(part_000.events) = 1

\* C37 witness: the store holds text that is not JSON and the picker starts
\* with the model labelled 'TRMNL OG', although og_plus comes first
C37_WitnessDefault ==
    /\ part_000.phase = "live"
    /\ part_000.loaded = Text("raw", "not json", <<>>)
    /\ part_000.self.state.selectedModel = JRef("v1")
    /\ part_000.self.state.selectedPalette = JRef("gray-4")
    /\ Len(part_000.events) = 1

\* C38: in the variant src/unnamed/part_000 the selected palette of a
\* constructed picker is always a usable palette that the selected model
\* references, and after update({modelName: M}) with an eligible M it is the
\* first usable palette of M.
C38_PaletteOfModelInVariant ==
    part_000.phase = "live" =>
        /\ part_000.self.state.selectedPalette.t = "object"
        /\ UsableOf(JStr(part_000.self.state.selectedPalette.v),
                    Model_000(part_000.self.state.selectedModel.v))
        /\ (/\ part_000.call.op = "update"
            /\ \E M \in {part_000.call.params.o.modelName} :
                  /\ Eligible_000(M)
                  /\ part_000.call.params = Obj(With("modelName", M))) =>
              part_000.self.state.selectedPalette =
                 JRef(FirstUsable_000(Model_000(part_000.self.state.selectedModel.v)))

====
